---- MODULE Spec2Model ----
(***************************************************************************)
(* A model of js_channel (Channel.build and the process-wide dispatcher)   *)
(* as found in src/examples/react/src/util/handleBinder.js.                *)
(*                                                                         *)
(* Every window (javascript evaluation context) has its own copy of the    *)
(* process-wide state s_curTranId, s_boundChans and s_transIds; a channel  *)
(* is the closure created by Channel.build in its home window.  Windows    *)
(* exchange JSON text through window.postMessage.                          *)
(***************************************************************************)
EXTENDS Integers, Sequences, FiniteSets, TLC

\* ------------------------------------------------------------------ bounds
MaxChans == 2
MaxCalls == 1
MaxNet == 3
MaxObjs == 2

\* ------------------------------------------------------- program constants
SeedMax == 1000000

\* ------------------------------------------------------------ js values
Undefined == "<undefined>"
Null == "<null>"
NoErr == "<none>"

\* -------------------------------------------------- sequences (helpers)
InSeq(x, s) == \E i \in 1..Len(s) : s[i] = x

Range(s) == {s[i] : i \in 1..Len(s)}

RECURSIVE Flat(_)
Flat(ss) == IF ss = <<>> THEN <<>> ELSE Head(ss) \o Flat(Tail(ss))

\* ----------------------------------------------- call parameters (graphs)
\* A property name is a string; the model writes it as the sequence of its
\* '/'-free pieces, so <<"a","b">> is the property name "a/b".
Atoms == {"a", "b"}
Keys == {<<"a">>, <<"b">>, <<"a", "b">>}

\* for (var k in obj) enumerates own properties in creation order; the
\* parameters of the model were all created in this order.
KeyOrder == << <<"a", "b">>, <<"a">>, <<"b">> >>

ObjName == <<"o1", "o2", "o3", "o4">>
ObjIds == {ObjName[i] : i \in 1..MaxObjs}
Fns == {"f1", "f2"}
Prims == {"p"}

\* typeof v
TypeOf(v) ==
    IF v \in Fns THEN "function"
    ELSE IF v \in Range(ObjName) \/ v = Null THEN "object"
    ELSE IF v = Undefined THEN "undefined"
    ELSE "string"

\* the wire form of a path: path + (path.length ? '/' : '') + k
JoinPath(path, k) == path \o k

\* path.split('/')
SplitPath(wire) == [i \in 1..Len(wire) |-> <<wire[i]>>]

KeysOf(o) == SelectSeq(KeyOrder, LAMBDA k : k \in DOMAIN o)

Without(f, k) == [x \in (DOMAIN f) \ {k} |-> f[x]]

With(f, k, v) == [x \in (DOMAIN f) \cup {k} |-> IF x = k THEN v ELSE f[x]]

RecursiveError == "params cannot be a recursive data structure"

\* The walk of call(): st is the state the closure pruneFunctions shares with
\* call (seen, callbacks, callbackNames) and the heap it mutates.
RECURSIVE pruneFunctions(_, _, _)
RECURSIVE pruneMembers(_, _, _, _)
\* a walk that passes over an object it has seen instead of throwing
pruneSeenSkip(st, path, obj) ==
    IF st.threw # NoErr \/ InSeq(obj, st.seen) THEN st
    ELSE LET st1 == IF obj \notin {Null, Undefined}
                    THEN [st EXCEPT !.seen = Append(@, obj)] ELSE st
         IN  IF TypeOf(obj) = "object" /\ obj # Null
             THEN pruneMembers(st1, path, obj, KeysOf(st1.heap[obj]))
             ELSE st1

pruneFunctions(st, path, obj) ==
    IF st.threw # NoErr THEN st
    ELSE IF InSeq(obj, st.seen) THEN [st EXCEPT !.threw = RecursiveError]
    ELSE LET st1 == IF obj \notin {Null, Undefined}
                    THEN [st EXCEPT !.seen = Append(@, obj)] ELSE st
         IN  IF TypeOf(obj) = "object" /\ obj # Null
             THEN pruneMembers(st1, path, obj, KeysOf(st1.heap[obj]))
             ELSE st1

pruneMembers(st, path, obj, ks) ==
    IF ks = <<>> \/ st.threw # NoErr THEN st
    ELSE LET k == Head(ks)
             np == JoinPath(path, k)
             v == st.heap[obj][k]
             st1 == IF TypeOf(v) = "function"
                    THEN [st EXCEPT !.callbacks = With(@, np, v),
                                    !.callbackNames = Append(@, np),
                                    !.heap[obj] = Without(@, k)]
                    ELSE IF TypeOf(v) = "object"
                    THEN pruneFunctions(st, np, v)
                    ELSE st
         IN  pruneMembers(st1, path, obj, Tail(ks))

EmptyFn == [x \in {} |-> x]

PruneStart(heap) ==
    [heap |-> heap, seen |-> <<>>, callbacks |-> EmptyFn, callbackNames |-> <<>>,
     threw |-> NoErr]

\* pruneFunctions("", m.params)
Prune(params) == pruneFunctions(PruneStart(params.heap), <<>>, params.root)

\* --------------------------------------------- JSON.stringify / JSON.parse
RECURSIVE Reaches(_, _, _, _)
Reaches(heap, from, to, fuel) ==
    /\ fuel > 0
    /\ from \in DOMAIN heap
    /\ \E k \in DOMAIN heap[from] :
          \/ heap[from][k] = to
          \/ Reaches(heap, heap[from][k], to, fuel - 1)

\* JSON.stringify throws a TypeError on a value that contains itself
IsCyclic(heap, v) ==
    \E o \in DOMAIN heap :
       /\ (o = v \/ Reaches(heap, v, o, Cardinality(DOMAIN heap)))
       /\ Reaches(heap, o, o, Cardinality(DOMAIN heap))

PrimNode(v) == [t |-> "prim", v |-> v, cb |-> <<>>]
ObjNode == [t |-> "object", v |-> "{}", cb |-> <<>>]
FnNode(cbName) == [t |-> "function", v |-> "fn", cb |-> cbName]

\* A parsed JSON value is a tree: the function from the path of every node
\* (a sequence of property names) to the node.  Function-valued and undefined
\* members are left out by JSON.stringify; an absent value is the empty tree.
RECURSIVE Stringify(_, _, _)
Stringify(heap, v, at) ==
    IF TypeOf(v) \in {"function", "undefined"} THEN {}
    ELSE IF TypeOf(v) = "object" /\ v # Null
    THEN {<<at, ObjNode>>} \cup
         UNION {Stringify(heap, heap[v][k], Append(at, k)) : k \in DOMAIN heap[v]}
    ELSE {<<at, PrimNode(v)>>}

TreeOf(pairs) ==
    [p \in {x[1] : x \in pairs} |-> (CHOOSE x \in pairs : x[1] = p)[2]]

\* JSON.parse(JSON.stringify(v)) of an acyclic value
JsonRoundTrip(heap, v) == TreeOf(Stringify(heap, v, <<>>))

NoParams == TreeOf({})

IsPrefix(p, q) == Len(p) <= Len(q) /\ SubSeq(q, 1, Len(p)) = p

\* obj[k] = v on a parsed value: the subtree at path is replaced by node
TreePut(tree, path, node) ==
    [q \in {x \in DOMAIN tree : ~IsPrefix(path, x)} \cup {path} |->
        IF q = path THEN node ELSE tree[q]]

TypeOfNode(tree, path) ==
    IF path \notin DOMAIN tree THEN "undefined"
    ELSE IF tree[path].t = "prim" /\ tree[path].v # Null THEN "string"
    ELSE IF tree[path].t = "function" THEN "function"
    ELSE "object"

\* -------------------------------------------------------------- messages
NoId == -1
NoMethod == <<>>
NoCallback == <<>>
DefaultScope == "__default"

\* A message on the wire.  A member that is undefined is left out by
\* JSON.stringify: the absent values below stand for both.
Msg == [id |-> NoId, method |-> NoMethod, params |-> NoParams, arg |-> Undefined,
        callbacks |-> <<>>, callback |-> NoCallback, error |-> Undefined,
        message |-> Undefined, result |-> Undefined,
        type |-> Undefined, publish |-> <<>>]

\* [cfg.scope, m].join("::")
scopeMethod(scope, m) == <<scope, m>>

\* method names of the model that contain the separator '::'
SepMethods == {"x::y"}

\* m.method.split('::') of s_onMessage: s and meth
SplitMethod(wire) ==
    IF wire = NoMethod THEN [s |-> Undefined, meth |-> Undefined]
    ELSE IF wire[2] \in SepMethods
    THEN [s |-> Undefined, meth |-> "<scope::x::y>"]
    ELSE [s |-> wire[1], meth |-> wire[2]]

Truthy(id) == id # NoId /\ id # 0

\* ------------------------------------------------------------ exceptions
\* A thrown value: t is what the catch block of onMessage can tell about it,
\* a and b its parts, json the text JSON.stringify gives for it.
NoExc == [t |-> "none", a |-> Undefined, b |-> Undefined, json |-> Undefined]
\* (the same record carries the value a handler returns)
Value(v) == [t |-> "value", a |-> v, b |-> Undefined, json |-> v]
ThrowString(s) == [t |-> "string", a |-> s, b |-> Undefined, json |-> s]
ThrowError(name, msg) == [t |-> "error", a |-> name, b |-> msg, json |-> "{}"]
ThrowPair(c, m) == [t |-> "pair", a |-> c, b |-> m, json |-> "[c,m]"]
ThrowObject(e, m) == [t |-> "object", a |-> e, b |-> m, json |-> "{error,message}"]
ThrowOther(j) == [t |-> "other", a |-> Undefined, b |-> Undefined, json |-> j]
ThrowNull == [t |-> "null", a |-> Undefined, b |-> Undefined, json |-> "null"]

\* the catch block of onMessage: the (error, message) handed to trans.error,
\* or the TypeError that leaves the catch block (typeof e.error of null)
\* (a catch block that reports everything as a runtime_error)
NormalizeAsRuntime(e) ==
    [error |-> "runtime_error", message |-> e.json, exc |-> NoExc]

Normalize(e) ==
    IF e.t = "string"
    THEN [error |-> "runtime_error", message |-> e.a, exc |-> NoExc]
    ELSE IF e.t = "error"
    THEN [error |-> e.a, message |-> e.b, exc |-> NoExc]
    ELSE IF e.t = "pair"
    THEN [error |-> e.a, message |-> e.b, exc |-> NoExc]
    ELSE IF e.t = "object"
    THEN [error |-> e.a, message |-> IF e.b = Undefined THEN "" ELSE e.b,
          exc |-> NoExc]
    ELSE IF e.t = "null"
    THEN [error |-> "runtime_error", message |-> Null,
          exc |-> ThrowError("TypeError", "null has no properties")]
    ELSE [error |-> "runtime_error", message |-> e.json, exc |-> NoExc]

\* ---------------------------------------------------------------- channel
\* The state one step of a channel works on: the channel's closure ch, the
\* window's s_curTranId (cur) and s_transIds (tids), what the user code of
\* the window holds (held, hist) and the exception being thrown (exc).
\* ch.outbox holds what the step hands to cfg.window.postMessage.

\* a value user code hands over that JSON.stringify cannot serialise (an
\* object that contains itself)
Circular == "<circular>"

\* JSON.stringify(msg) returns
Serializable(msg) == msg.result # Circular /\ msg.arg # Circular

Throw(S, e) == [S EXCEPT !.exc = e]

\* postMessage(msg, force) of the channel; both branches evaluate
\* JSON.stringify(msg) before they queue or post (first a postMessage that
\* never queues)
postMessageUnqueued(S, msg, force) ==
    IF ~Serializable(msg)
    THEN [S EXCEPT !.exc = ThrowError("TypeError", "cyclic object value")]
    ELSE [S EXCEPT !.ch.outbox = Append(@, msg), !.ch.posted = @ \cup {msg}]

postMessage(S, msg, force) ==
    IF ~Serializable(msg)
    THEN Throw(S, ThrowError("TypeError", "cyclic object value"))
    ELSE IF ~force /\ ~S.ch.ready
    THEN [S EXCEPT !.ch.pendingQueue = Append(@, msg), !.ch.posted = @ \cup {msg}]
    ELSE [S EXCEPT !.ch.outbox = Append(@, msg), !.ch.posted = @ \cup {msg}]

\* trans.invoke(cbName, v)
TransInvoke(S, trans, cbName, v) ==
    IF trans.id \notin S.ch.inTbl
    THEN Throw(S, ThrowString("attempting to invoke a callback of a nonexistent transaction"))
    ELSE IF ~InSeq(cbName, trans.callbacks)
    THEN Throw(S, ThrowString("request supports no such callback"))
    ELSE postMessage(S, [Msg EXCEPT !.id = trans.id, !.callback = cbName, !.arg = v],
                     FALSE)

\* trans.error(error, message)
TransError(S, trans, error, message) ==
    IF trans.id \notin S.ch.inTbl
    THEN Throw(S, ThrowString("error called for nonexistent message"))
    ELSE postMessage([S EXCEPT !.ch.inTbl = @ \ {trans.id}],
                     [Msg EXCEPT !.id = trans.id, !.error = error, !.message = message],
                     FALSE)

\* trans.complete(v)
TransComplete(S, trans, v) ==
    IF trans.id \notin S.ch.inTbl
    THEN Throw(S, ThrowString("complete called for nonexistent message"))
    ELSE postMessage([S EXCEPT !.ch.inTbl = @ \ {trans.id}],
                     [Msg EXCEPT !.id = trans.id, !.result = v], FALSE)

\* the callback synthesis of onMessage for one path: obj[...] = function
RECURSIVE SynthOne(_, _, _, _)
SynthOne(tree, at, items, cbName) ==
    IF TypeOfNode(tree, at) # "object" \/ tree[at].t = "prim"
    THEN [tree |-> tree, exc |-> ThrowError("TypeError", "cannot set property")]
    ELSE IF Len(items) = 1
    THEN [tree |-> TreePut(tree, Append(at, items[1]), FnNode(cbName)), exc |-> NoExc]
    ELSE LET next == Append(at, items[1])
             t1 == IF TypeOfNode(tree, next) # "object"
                   THEN TreePut(tree, next, ObjNode) ELSE tree
         IN  SynthOne(t1, next, Tail(items), cbName)

RECURSIVE SynthCallbacks(_, _)
SynthCallbacks(tree, names) ==
    IF names = <<>> THEN [tree |-> tree, exc |-> NoExc]
    ELSE LET r == SynthOne(tree, <<>>, SplitPath(Head(names)), Head(names))
         IN  IF r.exc # NoExc THEN r ELSE SynthCallbacks(r.tree, Tail(names))

\* ------------------------------------------------------ windows, origins
Windows == {"wA", "wB", "wC"}
NoWindow == "<no window>"

Origin(scheme, host, port) == [scheme |-> scheme, host |-> host, port |-> port]
Star == Origin("*", "", "")
NullOrigin == Origin("null", "", "")
OriginA == Origin("https", "a.example", "")
OriginB == Origin("https", "b.example", "")
OriginC == Origin("https", "c.example", "")

\* the origin of the document of each window
OriginOf(w) == IF w = "wA" THEN OriginA ELSE IF w = "wB" THEN OriginB ELSE OriginC

\* String.prototype.toLowerCase on the host names of the model
ToLowerCase(h) ==
    IF h = "A.Example" THEN "a.example"
    ELSE IF h = "B.Example" THEN "b.example" ELSE h

\* cfg.origin as given to build: "*", or scheme://host[:port]rest
OriginInput(scheme, host, port, rest) ==
    [scheme |-> scheme, host |-> host, port |-> port, rest |-> rest]
StarInput == OriginInput("*", "", "", "")

\* the origin validation of build: the origin kept in cfg.origin, or
\* NullOrigin when build throws "invalid origin"
ValidOrigin(o) ==
    IF o = StarInput THEN Star
    ELSE IF o.scheme \in {"http", "https"} /\ o.host # ""
    THEN Origin(o.scheme, ToLowerCase(o.host), o.port)
    ELSE NullOrigin

\* ----------------------------------------------------- s_boundChans
\* s_boundChans of one window: origin -> scope -> list of {win, handler};
\* the handler is the onMessage closure of a channel, named by the channel.
hasWin(arr, win) == \E i \in 1..Len(arr) : arr[i].win = win

BoundAt(reg, origin, scope) ==
    IF origin \in DOMAIN reg /\ scope \in DOMAIN reg[origin]
    THEN reg[origin][scope] ELSE <<>>

ConflictError == "A channel is already bound to the same window which overlaps"

\* the exists test of s_addBoundChan (first a test that looks at the bucket
\* of the new origin only)
addBoundChanExistsExactOnly(reg, win, origin, scope) ==
    hasWin(BoundAt(reg, origin, scope), win)

addBoundChanExists(reg, win, origin, scope) ==
    IF origin = Star
    THEN \E k \in (DOMAIN reg) \ {Star} : hasWin(BoundAt(reg, k, scope), win)
    ELSE \/ hasWin(BoundAt(reg, Star, scope), win)
         \/ hasWin(BoundAt(reg, origin, scope), win)

\* s_addBoundChan(win, origin, scope, handler) once exists is false
s_addBoundChan(reg, win, origin, scope, handler) ==
    LET r1 == IF origin \in DOMAIN reg THEN reg ELSE With(reg, origin, <<>>)
        arr == IF scope \in DOMAIN r1[origin] THEN r1[origin][scope] ELSE <<>>
    IN  [r1 EXCEPT ![origin] =
            With(@, scope, Append(arr, [win |-> win, handler |-> handler]))]

\* s_removeBoundChan(win, origin, scope); the caller checked that
\* s_boundChans[origin][scope] exists
RECURSIVE spliceLoop(_, _, _)
spliceLoop(arr, i, win) ==
    IF i > Len(arr) THEN arr
    ELSE IF arr[i].win = win
    THEN spliceLoop(SubSeq(arr, 1, i - 1) \o SubSeq(arr, i + 1, Len(arr)), i + 1, win)
    ELSE spliceLoop(arr, i + 1, win)

s_removeBoundChan(reg, win, origin, scope) ==
    LET arr == spliceLoop(reg[origin][scope], 1, win)
    IN  IF arr = <<>>
        THEN [reg EXCEPT ![origin] = Without(@, scope)]
        ELSE [reg EXCEPT ![origin][scope] = arr]

\* the channel s_onMessage hands a message with a method to, or 0 (first a
\* lookup that does not compare windows)
RouteAnyWindow(reg, o, s, w) ==
    IF BoundAt(reg, o, s) # <<>> THEN BoundAt(reg, o, s)[1].handler
    ELSE IF BoundAt(reg, Star, s) # <<>> THEN BoundAt(reg, Star, s)[1].handler
    ELSE 0

RouteByMethod(reg, o, s, w) ==
    LET exact == SelectSeq(BoundAt(reg, o, s), LAMBDA e : e.win = w)
        star == SelectSeq(BoundAt(reg, Star, s), LAMBDA e : e.win = w)
    IN  IF exact # <<>> THEN exact[1].handler
        ELSE IF star # <<>> THEN star[1].handler
        ELSE 0

\* ------------------------------------------------------ handlers (user code)
\* What is bound to a method.  kind "user" is a handler of the application,
\* described by what it does with (trans, params): pre is what it does first
\* (nothing, trans.complete, trans.error, trans.delayReturn(true), or a call
\* of the function it expects in params at path at), end is how it ends
\* (return of a value, or throw of val).
Handler(kind, pre, at, end, val) ==
    [kind |-> kind, pre |-> pre, at |-> at, end |-> end, val |-> val]
OnReadyHandler == Handler("onReady", "none", <<>>, "return", NoExc)
OnBindHandler == Handler("onBind", "none", <<>>, "return", NoExc)
OnUnbindHandler == Handler("onUnbind", "none", <<>>, "return", NoExc)
Returns == Handler("user", "none", <<>>, "return", NoExc)
Throws(e) == Handler("user", "none", <<>>, "throw", e)
CompletesThenThrows(e) == Handler("user", "complete", <<>>, "throw", e)
Delays == Handler("user", "delay", <<>>, "return", NoExc)
Invokes(at) == Handler("user", "invoke", at, "return", NoExc)
ReturnsValue(v) == Handler("user", "none", <<>>, "return", Value(v))
CompletesThenReturns == Handler("user", "complete", <<>>, "return", NoExc)
ErrorsThenReturns == Handler("user", "error", <<>>, "return", NoExc)

\* regTbl is a plain object: regTbl[method] also finds what every object
\* inherits from Object.prototype (toString, constructor, ...)
ProtoMethods == {"toString"}
Inherited == Handler("inherited", "none", <<>>, "return", NoExc)

\* if (regTbl[method])
IsSet(regTbl, method) == method \in DOMAIN regTbl \/ method \in ProtoMethods

\* regTbl[method], when it is set
Get(regTbl, method) ==
    IF method \in DOMAIN regTbl THEN regTbl[method] ELSE Inherited

\* ------------------------------------------------- success / error (user code)
\* The caller's success (which = "success") or error callback of call id runs;
\* a callback of a call made with throws = TRUE raises an exception.
CallUser(S, id, which, code) ==
    LET h == S.hist[id]
        h1 == [h EXCEPT !.nSuccess = IF which = "success" THEN @ + 1 ELSE @,
                        !.nError = IF which = "error" THEN @ + 1 ELSE @,
                        !.code = IF which = "error" THEN code ELSE @,
                        !.late = @ \/ h.returned,
                        !.afterExpiry = @ \/ h.expired,
                        !.returned = @ \/ ~h.throws]
    IN  [S EXCEPT !.hist[id] = h1,
                  !.exc = IF h.throws THEN ThrowString("callback threw") ELSE @]

\* ------------------------------------------------------------- obj.notify
\* notify(m), m.method a non-empty string (first a notify that takes a
\* transaction id)
notifyConsumesId(S, method, msg) ==
    [postMessage(S, [msg EXCEPT !.method = scopeMethod(S.ch.cfg.scope, method)], FALSE)
        EXCEPT !.cur = @ + 1]

notify(S, method, msg) ==
    postMessage(S, [msg EXCEPT !.method = scopeMethod(S.ch.cfg.scope, method)], FALSE)

\* obj.unbind(method, doNotPublish); S.ret is what it returns (first an
\* unbind that removes nothing)
unbindKeeps(S, method, doNotPublish) == [S EXCEPT !.ret = "false"]

unbind(S, method, doNotPublish) ==
    IF IsSet(S.ch.regTbl, method)
    THEN LET S1 == [S EXCEPT !.ch.regTbl = Without(@, method), !.ret = "true",
                             !.ch.unbound = @ \cup {method}]
         IN  IF S.ch.cfg.publish /\ ~doNotPublish
             THEN IF S.ch.ready
                  THEN notify(S1, "__unbind", [Msg EXCEPT !.arg = method])
                  ELSE [S1 EXCEPT !.ch.publishQueue =
                           Append(@, [action |-> "unbind", method |-> method])]
             ELSE S1
    ELSE [S EXCEPT !.ret = "false"]

\* obj.bind(method, cb, doNotPublish), method a non-empty string, cb a function

bind(S, method, cb, doNotPublish) ==
    IF IsSet(S.ch.regTbl, method)
    THEN Throw(S, ThrowString("method is already bound!"))
    ELSE LET S1 == [S EXCEPT !.ch.regTbl = With(@, method, cb), !.ret = "this",
                             !.ch.unbound = @ \ {method}]
         IN  IF S.ch.cfg.publish /\ ~doNotPublish
             THEN IF S.ch.ready
                  THEN notify(S1, "__bind", [Msg EXCEPT !.arg = method])
                  ELSE [S1 EXCEPT !.ch.publishQueue =
                           Append(@, [action |-> "bind", method |-> method])]
             ELSE S1

\* the publish loop of onReady: createStubs / delete obj.remote[...]
RECURSIVE ApplyPublish(_, _)
ApplyPublish(remote, publish) ==
    IF publish = <<>> THEN remote
    ELSE ApplyPublish(IF Head(publish).action = "bind"
                      THEN remote \cup {Head(publish).method}
                      ELSE remote \ {Head(publish).method},
                      Tail(publish))

\* the flush loop of onReady (first a loop that takes the newest message)
RECURSIVE FlushNewestFirst(_)
FlushNewestFirst(S) ==
    IF S.ch.pendingQueue = <<>> THEN S
    ELSE LET n == Len(S.ch.pendingQueue)
         IN  FlushNewestFirst(postMessage(
                 [S EXCEPT !.ch.pendingQueue = SubSeq(@, 1, n - 1)],
                 S.ch.pendingQueue[n], FALSE))

RECURSIVE Flush(_)
Flush(S) ==
    IF S.ch.pendingQueue = <<>> THEN S
    ELSE Flush(postMessage([S EXCEPT !.ch.pendingQueue = Tail(@)],
                           Head(S.ch.pendingQueue), FALSE))

NewCall(c, hasError, timeout, throws, fns) ==
    [chan |-> c, hasError |-> hasError, timeout |-> timeout, throws |-> throws,
     nSuccess |-> 0, nError |-> 0, code |-> Undefined, returned |-> FALSE,
     late |-> FALSE, answered |-> FALSE, expired |-> FALSE, unanswered |-> FALSE,
     afterExpiry |-> FALSE, ran |-> {}, fns |-> fns]

\* the functions in a parameter value, each with the path of its property
RECURSIVE FnsIn(_, _, _, _)
FnsIn(hp, v, at, fuel) ==
    IF fuel = 0 \/ v \notin DOMAIN hp THEN {}
    ELSE UNION {IF TypeOf(hp[v][k]) = "function"
                THEN {[fn |-> hp[v][k], path |-> Append(at, k)]}
                ELSE FnsIn(hp, hp[v][k], Append(at, k), fuel - 1) : k \in DOMAIN hp[v]}

\* obj.call(m) with m.method a non-empty string and m.success a function:
\* m.params is root, m.error is given when hasError, m.timeout when timeout
\* (first a call without s_curTranId++)
callKeepsId(S, method, root, hasError, timeout, throws) ==
    LET P == Prune([heap |-> S.heap, root |-> root])
        id == S.cur
        msg == [Msg EXCEPT !.id = id,
                           !.method = scopeMethod(S.ch.cfg.scope, method),
                           !.params = JsonRoundTrip(P.heap, root),
                           !.callbacks = P.callbackNames]
        S1 == [S EXCEPT
                 !.heap = P.heap,
                 !.tm = IF timeout
                        THEN @ \cup {[kind |-> "timeout", chan |-> S.ch.self, id |-> id]}
                        ELSE @,
                 !.ch.outTbl = With(@, id, [callbacks |-> P.callbacks,
                                             error |-> hasError]),
                 !.tids = With(@, id, S.ch.self),
                 !.ch.issued = Append(@, id),
                 !.hist = With(@, id, NewCall(S.ch.self, hasError, timeout, throws,
                                              FnsIn(S.heap, root, <<>>, MaxObjs)))]
    IN  IF P.threw # NoErr
        THEN Throw([S EXCEPT !.heap = P.heap], ThrowString(P.threw))
        ELSE IF IsCyclic(P.heap, root)
        THEN Throw(S1, ThrowError("TypeError", "cyclic object value"))
        ELSE postMessage(S1, msg, FALSE)

call(S, method, root, hasError, timeout, throws) ==
    LET P == Prune([heap |-> S.heap, root |-> root])
        id == S.cur
        msg == [Msg EXCEPT !.id = id,
                           !.method = scopeMethod(S.ch.cfg.scope, method),
                           !.params = JsonRoundTrip(P.heap, root),
                           !.callbacks = P.callbackNames]
        S1 == [S EXCEPT
                 !.heap = P.heap,
                 !.tm = IF timeout
                        THEN @ \cup {[kind |-> "timeout", chan |-> S.ch.self, id |-> id]}
                        ELSE @,
                 !.ch.outTbl = With(@, id, [callbacks |-> P.callbacks,
                                             error |-> hasError]),
                 !.tids = With(@, id, S.ch.self),
                 !.ch.issued = Append(@, id),
                 !.cur = id + 1,
                 !.hist = With(@, id, NewCall(S.ch.self, hasError, timeout, throws,
                                              FnsIn(S.heap, root, <<>>, MaxObjs)))]
    IN  IF P.threw # NoErr
        THEN Throw([S EXCEPT !.heap = P.heap], ThrowString(P.threw))
        ELSE IF IsCyclic(P.heap, root)
        THEN Throw(S1, ThrowError("TypeError", "cyclic object value"))
        ELSE postMessage(S1, msg, FALSE)

\* ------------------------------------------------ the OskariRPC client
\* What the closure of OskariRPC.connect holds next to its channel: ready,
\* and the names under which __bindFunctionCall has put a function into
\* RPC_API.  introspect holds the ids of the calls made by the onReady passed
\* to JSChannel.build and defaulted the ids of the calls whose error callback
\* is defaultErrorHandler.  eventHandlers is the object of that name (event
\* name -> array of handlers); listens records, in order, the (event name,
\* flag) of the params of the 'handleEvent' calls the client has made.
ClientScope == "Oskari"
Introspection == "getSupportedFunctions"

\* the own enumerable property names of a value received as result
OwnNames(v) ==
    IF v = "{}" THEN {}
    ELSE IF v = "{f}" THEN {"f"}
    ELSE IF v = "{f,getInfo}" THEN {"f", "getInfo"}
    ELSE IF v = Undefined THEN {}
    ELSE {"0"}

\* the onReady that connect passes to JSChannel.build
ClientOnReady(S) ==
    [call(S, Introspection, Undefined, TRUE, FALSE, FALSE)
        EXCEPT !.ch.rpc.introspect = @ \cup {S.cur}]

\* the success and error callbacks the client passes to channel.call
ClientCallback(S, id, which, v) ==
    LET S1 == CallUser(S, id, which, IF which = "error" THEN v ELSE "")
        Threw(e) == [S1 EXCEPT !.exc = e, !.hist[id].returned = S.hist[id].returned]
    IN  IF S1.exc # NoExc THEN S1
        ELSE IF id \in S.ch.rpc.introspect
        THEN IF which = "success"
             THEN [S1 EXCEPT !.ch.rpc.api = @ \cup OwnNames(v), !.ch.rpc.ready = TRUE]
             ELSE Threw(ThrowError("Error", "Couldn't setup allowed functions"))
        ELSE IF id \in S.ch.rpc.defaulted /\ which = "error"
        THEN Threw(ThrowError("Error", "RPC call failed!"))
        ELSE S1

\* an onReady without the reply to a publish-request
onReadySilent(S, m) ==
    IF S.ch.ready /\ ~S.ch.cfg.reconnect
    THEN Throw(S, ThrowString("received ready message while in ready state."))
    ELSE LET S3 == [S EXCEPT !.ch.ready = TRUE,
                             !.ch.remote = ApplyPublish(@, m.publish)]
             S4 == IF ~S.ch.cfg.reconnect THEN unbind(S3, "__ready", TRUE) ELSE S3
         IN  [Flush(S4) EXCEPT !.ch.publishQueue = <<>>,
                               !.ch.nReady = IF S.ch.cfg.onReady THEN @ + 1 ELSE @]

\* an onReady that sends the reply to a publish-request after the flush
onReadyLateReply(S, m) ==
    IF S.ch.ready /\ ~S.ch.cfg.reconnect
    THEN Throw(S, ThrowString("received ready message while in ready state."))
    ELSE LET S1 == [S EXCEPT !.ch.ready = TRUE,
                             !.ch.remote = ApplyPublish(@, m.publish)]
             S2 == IF ~S.ch.cfg.reconnect THEN unbind(S1, "__ready", TRUE) ELSE S1
             S3 == Flush(S2)
             S4 == IF m.type = "publish-request"
                   THEN notify(S3, "__ready",
                               [Msg EXCEPT !.type = "publish-reply",
                                           !.publish = S3.ch.publishQueue])
                   ELSE S3
         IN  [S4 EXCEPT !.ch.publishQueue = <<>>,
                        !.ch.nReady = IF S.ch.cfg.onReady THEN @ + 1 ELSE @]

\* an onReady that neither refuses a second handshake nor unbinds itself
onReadyRearms(S, m) ==
    LET S1 == [S EXCEPT !.ch.ready = TRUE]
        S2 == IF m.type = "publish-request"
              THEN notify(S1, "__ready",
                          [Msg EXCEPT !.type = "publish-reply",
                                      !.publish = S1.ch.publishQueue])
              ELSE S1
        S3 == [S2 EXCEPT !.ch.remote = ApplyPublish(@, m.publish)]
    IN  [Flush(S3) EXCEPT !.ch.publishQueue = <<>>,
                          !.ch.nReady = IF S.ch.cfg.onReady THEN @ + 1 ELSE @]

\* onReady(trans, params): params.type is m.type, params.publish m.publish
onReady(S, m) ==
    IF S.ch.ready /\ ~S.ch.cfg.reconnect
    THEN Throw(S, ThrowString("received ready message while in ready state."))
    ELSE LET S1 == [S EXCEPT !.ch.ready = TRUE,
                             !.ch.chanId = IF @ \in {"id", ""}
                                           THEN IF m.type = "publish-request"
                                                THEN IF @ = "id" THEN "id-R" ELSE "-R"
                                                ELSE IF @ = "id" THEN "id-L" ELSE "-L"
                                           ELSE @]
             S2 == IF m.type = "publish-request"
                   THEN notify(S1, "__ready",
                               [Msg EXCEPT !.type = "publish-reply",
                                           !.publish = S1.ch.publishQueue])
                   ELSE S1
             S3 == [S2 EXCEPT !.ch.remote = ApplyPublish(@, m.publish)]
             S4 == IF ~S.ch.cfg.reconnect THEN unbind(S3, "__ready", TRUE) ELSE S3
             S5 == Flush([S4 EXCEPT !.ch.flushed = S4.ch.pendingQueue])
             S6 == [S5 EXCEPT !.ch.publishQueue = <<>>,
                              !.ch.nReady = IF S.ch.cfg.onReady THEN @ + 1 ELSE @]
         IN  IF S.ch.rpc.connected THEN ClientOnReady(S6) ELSE S6

\* ------------------------------------------------------------- onMessage
NotAFunction == ThrowError("TypeError", "is not a function")

\* regTbl[method](trans, m.params): what the bound handler h does.  A
\* Notification's handler gets {origin: origin} for trans, which has no
\* complete, error, delayReturn or invoke.
RunHandler(S, h, trans, params, m, isReq) ==
    IF h.kind = "onReady" THEN onReady(S, m)
    ELSE IF h.kind = "onBind" THEN [S EXCEPT !.ch.remote = @ \cup {m.arg}]
    ELSE IF h.kind = "onUnbind" THEN [S EXCEPT !.ch.remote = @ \ {m.arg}]
    ELSE LET S1 ==
               IF h.pre = "none" THEN S
               ELSE IF ~isReq THEN Throw(S, NotAFunction)
               ELSE IF h.pre = "complete"
               THEN [TransComplete(S, trans, "early") EXCEPT !.completed = TRUE]
               ELSE IF h.pre = "error"
               THEN [TransError(S, trans, "E_USER", "user") EXCEPT !.completed = TRUE]
               ELSE IF h.pre = "delay"
               THEN [S EXCEPT !.delay = TRUE,
                              !.held = @ \cup {[chan |-> S.ch.self, id |-> trans.id,
                                                callbacks |-> trans.callbacks,
                                                params |-> params,
                                                obj |-> S.ch.nTrans, done |-> FALSE]}]
               ELSE IF TypeOfNode(params, h.at) = "function"
               THEN TransInvoke(S, trans, params[h.at].cb, "v")
               ELSE Throw(S, NotAFunction)
         IN  IF S1.exc # NoExc THEN S1
             ELSE IF h.end = "throw" THEN Throw(S1, h.val)
             ELSE [S1 EXCEPT !.ret = IF h.kind = "inherited" THEN "[object Object]"
                                     ELSE IF h.val.t = "value" THEN h.val.a
                                     ELSE "r"]

\* the catch block of the request branch
Catch(S, trans) ==
    LET n == Normalize(S.exc)
        S1 == [S EXCEPT !.exc = NoExc,
                        !.ch.caught = @ \cup {[id |-> trans.id, e |-> S.exc,
                                               open |-> trans.id \in S.ch.inTbl]}]
    IN  IF n.exc # NoExc THEN Throw(S1, n.exc)
        ELSE TransError(S1, trans, n.error, n.message)

\* m.id && method
HandleRequest(S, origin, method, m) ==
    LET S0 == [S EXCEPT !.ch.inTbl = @ \cup {m.id}, !.ch.nTrans = @ + 1]
        trans == [id |-> m.id, callbacks |-> m.callbacks]
    IN  IF IsSet(S.ch.regTbl, method)
        THEN LET syn == IF m.callbacks # <<>>
                        THEN SynthCallbacks(m.params, m.callbacks)
                        ELSE [tree |-> m.params, exc |-> NoExc]
                 T1 == IF syn.exc # NoExc THEN Throw(S0, syn.exc)
                       ELSE RunHandler([S0 EXCEPT !.ch.handled = @ \cup
                                           {[id |-> m.id, params |-> syn.tree]}],
                                       Get(S.ch.regTbl, method), trans, syn.tree, m,
                                       TRUE)
                 T2 == IF T1.exc = NoExc /\ ~T1.delay /\ ~T1.completed
                       THEN TransComplete(T1, trans, T1.ret) ELSE T1
             IN  IF T2.exc = NoExc THEN T2 ELSE Catch(T2, trans)
        ELSE TransError(S0, trans, "method_not_found", "No method was (yet) bound")

\* callbacks is a plain object: callbacks["__proto__"] is Object.prototype,
\* which is truthy and not callable
ProtoName == <<"__proto__">>

\* m.id && m.callback
HandleCallback(S, m) ==
    IF m.id \notin DOMAIN S.ch.outTbl THEN S
    ELSE IF m.callback \in DOMAIN S.ch.outTbl[m.id].callbacks
    THEN [S EXCEPT !.hist[m.id].ran =
                      @ \cup {[fn |-> S.ch.outTbl[m.id].callbacks[m.callback],
                               callback |-> m.callback]}]
    ELSE IF m.callback = ProtoName THEN Throw(S, NotAFunction)
    ELSE S

Falsy(v) == v \in {Undefined, Null, ""}

\* hist: a Response or ErrorResponse for call id has reached the channel
Answered(S, id) ==
    IF id \in DOMAIN S.hist THEN [S EXCEPT !.hist[id].answered = TRUE] ELSE S

\* m.id alone: a Response or an ErrorResponse (first a branch without the
\* two deletes)
HandleResponseKeepsEntry(S, m) ==
    IF m.id \notin DOMAIN S.ch.outTbl THEN S
    ELSE IF ~Falsy(m.error)
    THEN IF S.ch.outTbl[m.id].error THEN CallUser(S, m.id, "error", m.error) ELSE S
    ELSE CallUser(S, m.id, "success", "")

HandleResponse(S, m) ==
    IF m.id \notin DOMAIN S.ch.outTbl THEN S
    ELSE LET S1 == IF ~Falsy(m.error)
                   THEN IF S.ch.outTbl[m.id].error
                        THEN ClientCallback(S, m.id, "error", m.error) ELSE S
                   ELSE ClientCallback(S, m.id, "success", m.result)
         IN  IF S1.exc # NoExc THEN S1
             ELSE [S1 EXCEPT !.ch.outTbl = Without(@, m.id),
                             !.tids = Without(@, m.id)]

\* method alone: a Notification
HandleNotification(S, origin, method, m) ==
    IF IsSet(S.ch.regTbl, method)
    THEN RunHandler([S EXCEPT !.ch.notified = @ \cup {method}],
                    Get(S.ch.regTbl, method), [id |-> NoId, callbacks |-> <<>>],
                    m.params, m, FALSE)
    ELSE S

\* onMessage(origin, method, m) of the channel
onMessage(S, origin, method, m) ==
    IF Truthy(m.id) /\ method # Undefined THEN HandleRequest(S, origin, method, m)
    ELSE IF Truthy(m.id) /\ m.callback # NoCallback THEN HandleCallback(S, m)
    ELSE IF Truthy(m.id) THEN HandleResponse(Answered(S, m.id), m)
    ELSE IF method # Undefined THEN HandleNotification(S, origin, method, m)
    ELSE S

\* ------------------------------------------------------------------ state
VARIABLES
    s_curTranId,    \* per window: the current transaction id
    s_boundChans,   \* per window: origin -> scope -> bound channels
    s_transIds,     \* per window: transaction id -> onMessage of a channel
    chan,           \* per channel: the variables Channel.build closes over
    timers,         \* the timers set with setTimeout and not yet fired
    net,            \* per window: the message events queued for it
    heap,           \* the objects user code passes as call parameters
    held,           \* the transactions a handler kept after delayReturn(true)
    hist,           \* per window and call: what happened to the call
    lastExc,        \* the exception the last step ended with, or NoExc
    lastRet         \* what the last step returned to user code

vars == <<s_curTranId, s_boundChans, s_transIds, chan, timers, net, heap, held,
          hist, lastExc, lastRet>>

ChanIds == 1..MaxChans

NoCfg == [window |-> NoWindow, origin |-> NullOrigin, scope |-> DefaultScope,
          publish |-> FALSE, reconnect |-> FALSE, onReady |-> FALSE]

NoRpc == [connected |-> FALSE, ready |-> FALSE, api |-> {}, introspect |-> {},
          defaulted |-> {}, eventHandlers |-> EmptyFn, listens |-> <<>>]

NoChan == [built |-> FALSE, self |-> 0, win |-> NoWindow, cfg |-> NoCfg,
           chanId |-> "", regTbl |-> EmptyFn, outTbl |-> EmptyFn, inTbl |-> {},
           ready |-> FALSE, pendingQueue |-> <<>>, publishQueue |-> <<>>,
           remote |-> {}, outbox |-> <<>>, posted |-> {}, caught |-> {},
           handled |-> {}, unbound |-> {}, issued |-> <<>>, notified |-> {},
           nReady |-> 0, nTrans |-> 0, flushed |-> <<>>, rpc |-> NoRpc]

\* Math.floor(Math.random()*1000001)
Seeds == {0, 1, SeedMax}

EmptyHeap == [o \in ObjIds |-> EmptyFn]

Init ==
    /\ s_curTranId \in [Windows -> Seeds]
    /\ s_boundChans = [w \in Windows |-> EmptyFn]
    /\ s_transIds = [w \in Windows |-> EmptyFn]
    /\ chan = [c \in ChanIds |-> NoChan]
    /\ timers = {}
    /\ net = [w \in Windows |-> <<>>]
    /\ heap = EmptyHeap
    /\ held = {}
    /\ hist = [w \in Windows |-> EmptyFn]
    /\ lastExc = NoExc
    /\ lastRet = Undefined

\* the state a step of channel c starts from
MkS(c) ==
    [ch |-> chan[c], cur |-> s_curTranId[chan[c].win],
     tids |-> s_transIds[chan[c].win], hist |-> hist[chan[c].win],
     held |-> held, heap |-> heap, tm |-> timers, exc |-> NoExc,
     ret |-> Undefined, delay |-> FALSE, completed |-> FALSE]

\* cfg.window.postMessage(text, cfg.origin): the browser queues a message
\* event for the target window when its origin matches the target origin
RECURSIVE Transport(_, _, _, _, _)
Transport(n, src, dst, targetOrigin, msgs) ==
    IF msgs = <<>> THEN n
    ELSE Transport(IF targetOrigin = Star \/ targetOrigin = OriginOf(dst)
                   THEN [n EXCEPT ![dst] = Append(@, [source |-> src,
                                                      origin |-> OriginOf(src),
                                                      data |-> Head(msgs)])]
                   ELSE n,
                   src, dst, targetOrigin, Tail(msgs))

\* the state after a step of channel c that ended in S; n is the message
\* queues the step started with
CommitNet(c, S, n) ==
    LET w == chan[c].win
    IN  /\ chan' = [chan EXCEPT ![c] = [S.ch EXCEPT !.outbox = <<>>]]
        /\ s_curTranId' = [s_curTranId EXCEPT ![w] = S.cur]
        /\ s_transIds' = [s_transIds EXCEPT ![w] = S.tids]
        /\ hist' = [hist EXCEPT ![w] = S.hist]
        /\ held' = S.held
        /\ heap' = S.heap
        /\ timers' = S.tm
        /\ net' = Transport(n, w, chan[c].cfg.window, chan[c].cfg.origin, S.ch.outbox)
        /\ lastExc' = S.exc
        /\ lastRet' = IF S.exc = NoExc THEN S.ret ELSE Undefined
        /\ UNCHANGED s_boundChans

Commit(c, S) == CommitNet(c, S, net)

\* ----------------------------------------------------------------- build
\* scopes of the model that contain '::'
SepScopes == {"a::b"}

CfgInput(window, origin, scope, publish, reconnect, readyFn, remote) ==
    [window |-> window, origin |-> origin, scope |-> scope, publish |-> publish,
     reconnect |-> reconnect, onReady |-> readyFn, remote |-> remote]

\* the exception build throws before it registers the channel, or NoExc
BuildValidation(w, cin) ==
    IF cin.window = NoWindow
    THEN ThrowString("Channel.build() called without a valid window argument")
    ELSE IF cin.window = w
    THEN ThrowString("target window is same as present window -- not allowed")
    ELSE IF ValidOrigin(cin.origin) = NullOrigin
    THEN ThrowString("Channel.build() called with an invalid origin")
    ELSE IF cin.scope \in SepScopes
    THEN ThrowString("scope may not contain double colons: '::'")
    ELSE NoExc

\* the closure build creates once s_addBoundChan has returned: the private
\* variables, the three reserved handlers and the stubs of cfg.remote
NewChan(c, w, cin) ==
    [NoChan EXCEPT
       !.built = TRUE, !.self = c, !.win = w,
       !.cfg = [window |-> cin.window, origin |-> ValidOrigin(cin.origin),
                scope |-> IF cin.scope = Undefined THEN DefaultScope ELSE cin.scope,
                publish |-> cin.publish, reconnect |-> cin.reconnect,
                onReady |-> cin.onReady],
       !.chanId = "id",
       !.regTbl = [m \in {"__ready", "__bind", "__unbind"} |->
                     IF m = "__ready" THEN OnReadyHandler
                     ELSE IF m = "__bind" THEN OnBindHandler
                     ELSE OnUnbindHandler],
       !.remote = cin.remote,
       !.rpc = IF "client" \in DOMAIN cin
               THEN [NoRpc EXCEPT !.connected = TRUE] ELSE NoRpc]

ReadyTimerOf(c) == [kind |-> "ready", chan |-> c, id |-> NoId]

\* Channel.build(cfg) in window w; c is the closure it creates
Build(c, w, cin) ==
    LET origin == ValidOrigin(cin.origin)
        scope == IF cin.scope = Undefined THEN DefaultScope ELSE cin.scope
        bad == BuildValidation(w, cin)
        exists == addBoundChanExists(s_boundChans[w], cin.window, origin, scope)
    IN  /\ ~chan[c].built
        /\ \A d \in ChanIds : d < c => chan[d].built
        /\ IF bad # NoExc \/ exists
           THEN /\ lastExc' = IF bad # NoExc THEN bad ELSE ThrowString(ConflictError)
                /\ lastRet' = Undefined
                /\ UNCHANGED <<s_curTranId, s_boundChans, s_transIds, chan, timers,
                               net, heap, held, hist>>
           ELSE /\ s_boundChans' = [s_boundChans EXCEPT ![w] =
                       s_addBoundChan(@, cin.window, origin, scope, c)]
                /\ chan' = [chan EXCEPT ![c] = NewChan(c, w, cin)]
                /\ timers' = timers \cup {ReadyTimerOf(c)}
                /\ lastExc' = NoExc
                /\ lastRet' = "obj"
                /\ UNCHANGED <<s_curTranId, s_transIds, net, heap, held, hist>>

\* the function build passes to setTimeout(..., 0)
\* the function passed to setTimeout, without the test of chanId
ReadyTimerUnguarded(c) ==
    /\ ReadyTimerOf(c) \in timers
    /\ Commit(c, postMessage([MkS(c) EXCEPT !.tm = @ \ {ReadyTimerOf(c)}],
                             [Msg EXCEPT
                                !.method = scopeMethod(chan[c].cfg.scope, "__ready"),
                                !.type = "publish-request",
                                !.publish = chan[c].publishQueue], TRUE))

ReadyTimer(c) ==
    /\ ReadyTimerOf(c) \in timers
    /\ LET S == [MkS(c) EXCEPT !.tm = @ \ {ReadyTimerOf(c)}]
       IN  Commit(c, IF chan[c].chanId # ""
                     THEN postMessage(S, [Msg EXCEPT
                              !.method = scopeMethod(chan[c].cfg.scope, "__ready"),
                              !.type = "publish-request",
                              !.publish = chan[c].publishQueue], TRUE)
                     ELSE S)

\* obj.destroy()
Destroy(c) ==
    LET w == chan[c].win
        cfg == chan[c].cfg
        reg == s_boundChans[w]
    IN  /\ chan[c].built
        /\ IF cfg.origin \in DOMAIN reg /\ cfg.scope \in DOMAIN reg[cfg.origin]
           THEN /\ s_boundChans' = [s_boundChans EXCEPT ![w] =
                       s_removeBoundChan(@, cfg.window, cfg.origin, cfg.scope)]
                /\ chan' = [chan EXCEPT ![c].ready = FALSE,
                                        ![c].regTbl = EmptyFn,
                                        ![c].inTbl = {},
                                        ![c].outTbl = EmptyFn,
                                        ![c].cfg.origin = NullOrigin,
                                        ![c].pendingQueue = <<>>,
                                        ![c].chanId = ""]
                /\ lastExc' = NoExc
           ELSE \* arr is undefined: arr.length throws
                /\ lastExc' = ThrowError("TypeError", "arr is undefined")
                /\ UNCHANGED <<s_boundChans, chan>>
        /\ lastRet' = Undefined
        /\ UNCHANGED <<s_curTranId, s_transIds, timers, net, heap, held, hist>>

\* ------------------------------------------------- the api, from user code
Bind(c, method, cb) ==
    /\ chan[c].built
    /\ Len(chan[c].publishQueue) < MaxNet
    /\ Len(net[chan[c].cfg.window]) < MaxNet
    /\ Commit(c, bind(MkS(c), method, cb, FALSE))

Unbind(c, method) ==
    /\ chan[c].built
    /\ Len(chan[c].publishQueue) < MaxNet
    /\ Len(net[chan[c].cfg.window]) < MaxNet
    /\ Commit(c, unbind(MkS(c), method, FALSE))

Call(c, method, root, hasError, timeout, throws) ==
    /\ chan[c].built
    /\ Len(chan[c].pendingQueue) < MaxNet
    /\ Len(net[chan[c].cfg.window]) < MaxNet
    /\ Commit(c, call(MkS(c), method, root, hasError, timeout, throws))

\* obj.notify(m) with m.method a non-empty string; m.params is root
Notify(c, method, root) ==
    /\ chan[c].built
    /\ Len(chan[c].pendingQueue) < MaxNet
    /\ Len(net[chan[c].cfg.window]) < MaxNet
    /\ Commit(c, IF IsCyclic(heap, root)
                 THEN Throw(MkS(c), ThrowError("TypeError", "cyclic object value"))
                 ELSE notify(MkS(c), method,
                             [Msg EXCEPT !.params = JsonRoundTrip(heap, root)]))

\* the function setTransactionTimeout passes to window.setTimeout

TimeoutFn(S, id) ==
    IF id \in DOMAIN S.ch.outTbl
    THEN LET S1 == IF S.ch.outTbl[id].error
                   THEN CallUser(S, id, "error", "timeout_error")
                   ELSE S
         IN  IF S1.exc # NoExc THEN S1
             ELSE [S1 EXCEPT !.ch.outTbl = Without(@, id),
                             !.tids = Without(@, id)]
    ELSE S

\* hist: the timer of call id has fired
Expired(S, id) ==
    [S EXCEPT !.hist[id].expired = TRUE,
              !.hist[id].unanswered = @ \/ ~S.hist[id].answered]

Timeout(t) ==
    /\ t \in timers
    /\ t.kind = "timeout"
    /\ Commit(t.chan, Expired(TimeoutFn([MkS(t.chan) EXCEPT !.tm = @ \ {t}], t.id),
                               t.id))

\* s_onMessage(e) in window w, e the first message event queued for w
Deliver(w) ==
    /\ net[w] # <<>>
    /\ LET e == Head(net[w])
           m == e.data
           sp == SplitMethod(m.method)
           c == IF sp.meth # Undefined
                THEN RouteByMethod(s_boundChans[w], e.origin, sp.s, e.source)
                ELSE IF m.id # NoId /\ m.id \in DOMAIN s_transIds[w]
                THEN s_transIds[w][m.id]
                ELSE 0
           rest == [net EXCEPT ![w] = Tail(@)]
       IN  IF c = 0
           THEN /\ net' = rest
                /\ lastExc' = NoExc
                /\ lastRet' = Undefined
                /\ UNCHANGED <<s_curTranId, s_boundChans, s_transIds, chan, timers,
                               heap, held, hist>>
           ELSE CommitNet(c, onMessage(MkS(c), e.origin, sp.meth, m), rest)

\* a handler that kept its transaction calls trans.complete later
HeldComplete(h) ==
    /\ h \in held
    /\ Commit(h.chan, TransComplete([MkS(h.chan) EXCEPT !.held = @ \ {h}],
                                    [id |-> h.id, callbacks |-> h.callbacks], "late"))

\* ... or trans.error
HeldError(h) ==
    /\ h \in held
    /\ Commit(h.chan, TransError([MkS(h.chan) EXCEPT !.held = @ \ {h}],
                                 [id |-> h.id, callbacks |-> h.callbacks],
                                 "E_LATE", "late"))

\* ... or the function it found in params at path at
HeldInvoke(h, at) ==
    /\ h \in held
    /\ TypeOfNode(h.params, at) = "function"
    /\ Len(chan[h.chan].pendingQueue) < MaxNet
    /\ Len(net[chan[h.chan].cfg.window]) < MaxNet
    /\ Commit(h.chan, TransInvoke(MkS(h.chan), [id |-> h.id, callbacks |-> h.callbacks],
                                  h.params[at].cb, "v"))

\* user code builds a parameter object: obj[k] = v
MaxFields == 3

SetField(o, k, v) ==
    /\ k \notin DOMAIN heap[o]
    /\ \A i, j \in 1..Len(KeyOrder) :
          KeyOrder[i] \in DOMAIN heap[o] /\ KeyOrder[j] = k => i < j
    /\ Cardinality({<<p, q>> \in ObjIds \X Keys : q \in DOMAIN heap[p]}) < MaxFields
    /\ heap' = [heap EXCEPT ![o] = With(@, k, v)]
    /\ lastExc' = NoExc
    /\ lastRet' = Undefined
    /\ UNCHANGED <<s_curTranId, s_boundChans, s_transIds, chan, timers, net, held, hist>>

\* a script of window src posts msg to window w: w.postMessage(text, "*")
Inject(w, src, msg) ==
    /\ Len(net[w]) < MaxNet
    /\ net' = [net EXCEPT ![w] = Append(@, [source |-> src, origin |-> OriginOf(src),
                                            data |-> msg])]
    /\ lastExc' = NoExc
    /\ lastRet' = Undefined
    /\ UNCHANGED <<s_curTranId, s_boundChans, s_transIds, chan, timers, heap, held, hist>>

\* ------------------------------------------------- two windows, one channel each
\* Window wA has built channel 1 to window wB and window wB channel 2 to
\* window wA; no timer has fired yet.
CfgAtoB == CfgInput("wB", OriginInput("https", "b.example", "", ""), Undefined,
                    FALSE, FALSE, TRUE, {})
CfgBtoA == CfgInput("wA", OriginInput("https", "a.example", "", ""), Undefined,
                    FALSE, FALSE, TRUE, {})

\* the code that built the channel has gone on to bind method to cb
Bound(ch, method, cb) == [ch EXCEPT !.regTbl = With(@, method, cb)]

Peers(a, b) == [c \in ChanIds |-> IF c = 1 THEN a ELSE IF c = 2 THEN b ELSE NoChan]

Chan1 == NewChan(1, "wA", CfgAtoB)
Chan2 == NewChan(2, "wB", CfgBtoA)

\* the state after both builds, wA's seed drawn from seedsA and the two
\* closures from chans
TwoBuilt(seedsA, chans) ==
    /\ s_curTranId \in {f \in [Windows -> Seeds] :
                           f["wA"] \in seedsA /\ f["wB"] = 1 /\ f["wC"] = 1}
    /\ s_boundChans = [w \in Windows |->
          IF w = "wA" THEN s_addBoundChan(EmptyFn, "wB", OriginB, DefaultScope, 1)
          ELSE IF w = "wB" THEN s_addBoundChan(EmptyFn, "wA", OriginA, DefaultScope, 2)
          ELSE EmptyFn]
    /\ s_transIds = [w \in Windows |-> EmptyFn]
    /\ chan \in chans
    /\ timers = {ReadyTimerOf(1), ReadyTimerOf(2)}
    /\ net = [w \in Windows |-> <<>>]
    /\ heap = EmptyHeap
    /\ held = {}
    /\ hist = [w \in Windows |-> EmptyFn]
    /\ lastExc = NoExc
    /\ lastRet = Undefined

\* calls made so far by the channels of window w
NCalls(w) == Cardinality(DOMAIN hist[w])

\* ---------------------------------------- the life of a call (C1, C3)
\* Window wB has bound "m" to a handler that returns, throws or keeps the
\* transaction, or has bound nothing; wA calls "m" with or without an error
\* callback and a timeout, its callbacks return or throw, and it may destroy
\* its channel.
UserHandlers == {Returns, Throws(ThrowString("boom")), Delays}

InitTwo ==
    TwoBuilt({0, 1}, {Peers(Chan1, Chan2)} \cup
                     {Peers(Chan1, Bound(Chan2, "m", h)) : h \in UserHandlers})

Next ==
    \/ \E c \in ChanIds : ReadyTimer(c)
    \/ \E w \in Windows : Deliver(w)
    \/ \E t \in timers : Timeout(t)
    \/ /\ NCalls("wA") < MaxCalls
       /\ \E e, t, x \in BOOLEAN : Call(1, "m", Undefined, e, t, x)
    \/ \E h \in held : HeldComplete(h)
    \/ chan[1].chanId # "" /\ Destroy(1)

Spec == InitTwo /\ [][Next]_vars

CallsOf(w) == {[id |-> id, h |-> hist[w][id]] : id \in DOMAIN hist[w]}

Outstanding(w, k) ==
    k.id \in DOMAIN chan[k.h.chan].outTbl \/ k.id \in DOMAIN s_transIds[w]

C3_TimeoutEvicts ==
    \A k \in CallsOf("wA") :
       k.h.unanswered =>
          /\ (k.h.hasError => k.h.nError >= 1 /\ k.h.code = "timeout_error")
          /\ ~Outstanding("wA", k)
          /\ ~k.h.afterExpiry

\* ------------------------------------ transaction ids of one window (C2)
\* Window wA has built channel 1 to wB and channel 2 to wC and calls on both;
\* the peers never build their end, so a call stays queued until it times
\* out, its channel is destroyed, or something in wB posts a message that
\* carries its id.
MaxIds == 2

CfgToB == CfgInput("wB", StarInput, Undefined, FALSE, FALSE, FALSE, {})
CfgToC == CfgInput("wC", StarInput, Undefined, FALSE, FALSE, FALSE, {})

InitIds ==
    /\ s_curTranId \in {f \in [Windows -> Seeds] : f["wB"] = 1 /\ f["wC"] = 1}
    /\ s_boundChans = [w \in Windows |->
          IF w = "wA"
          THEN s_addBoundChan(s_addBoundChan(EmptyFn, "wB", Star, DefaultScope, 1),
                              "wC", Star, DefaultScope, 2)
          ELSE EmptyFn]
    /\ s_transIds = [w \in Windows |-> EmptyFn]
    /\ chan = Peers(NewChan(1, "wA", CfgToB), NewChan(2, "wA", CfgToC))
    /\ timers = {ReadyTimerOf(1), ReadyTimerOf(2)}
    /\ net = [w \in Windows |-> <<>>]
    /\ heap = EmptyHeap
    /\ held = {}
    /\ hist = [w \in Windows |-> EmptyFn]
    /\ lastExc = NoExc
    /\ lastRet = Undefined

NextIds ==
    \/ /\ NCalls("wA") < MaxIds
       /\ \E c \in {1, 2}, t \in BOOLEAN : Call(c, "m", Undefined, TRUE, t, FALSE)
    \/ \E t \in timers : Timeout(t)
    \/ /\ net["wA"] = <<>>
       /\ \E id \in DOMAIN s_transIds["wA"] :
             Inject("wA", "wB", [Msg EXCEPT !.id = id, !.result = "r"])
    \/ Deliver("wA")
    \/ \E c \in {1, 2} : Destroy(c)

SpecIds == InitIds /\ [][NextIds]_vars

\* the outbound transactions of window w that are outstanding: channel c
\* issued the id as its i-th call and still holds it in its outbound table
OutstandingIn(w) ==
    {x \in ChanIds \X (1..MaxIds + 1) :
        /\ chan[x[1]].win = w
        /\ x[2] <= Len(chan[x[1]].issued)
        /\ chan[x[1]].issued[x[2]] \in DOMAIN chan[x[1]].outTbl}

\* C2: no two outstanding outbound transactions of one window have the same
\* id, on one channel or on two.
C2_OutstandingIdsDiffer ==
    \A w \in Windows : \A x, y \in OutstandingIn(w) :
       x # y => chan[x[1]].issued[x[2]] # chan[y[1]].issued[y[2]]

\* two channels of wA each have an outstanding call
C2_Witness ==
    \E x, y \in OutstandingIn("wA") : x[1] # y[1]

\* ------------------------------------------------ the registry (C4, C5)
\* Window wA builds channels to windows wB and wC (and tries its own window
\* and no window) with the origins and scopes below, and destroys them.
RegOrigins ==
    {StarInput,
     OriginInput("https", "b.example", "", ""),
     OriginInput("https", "B.Example", "", "/path"),
     OriginInput("https", "c.example", "", "")}

RegCfgs ==
    {CfgInput(w, o, sc, FALSE, FALSE, FALSE, {}) :
        w \in {"wB", "wC"}, o \in RegOrigins, sc \in {Undefined, "s"}}
    \cup {CfgInput(NoWindow, StarInput, Undefined, FALSE, FALSE, FALSE, {}),
          CfgInput("wA", StarInput, Undefined, FALSE, FALSE, FALSE, {}),
          CfgInput("wB", OriginInput("ftp", "b.example", "", ""), Undefined,
                   FALSE, FALSE, FALSE, {}),
          CfgInput("wB", StarInput, "a::b", FALSE, FALSE, FALSE, {})}

InitReg == Init /\ \A w \in Windows : s_curTranId[w] = 1

NextReg ==
    \/ \E c \in ChanIds, cin \in RegCfgs : Build(c, "wA", cin)
    \/ \E c \in ChanIds : Destroy(c)

SpecReg == InitReg /\ [][NextReg]_vars

\* the entries of a registry: origin, scope, position and remote window
Entries(reg) ==
    {e \in [origin : DOMAIN reg, scope : UNION {DOMAIN reg[k] : k \in DOMAIN reg},
            idx : 1..(MaxChans + 1), win : Windows] :
        /\ e.scope \in DOMAIN reg[e.origin]
        /\ e.idx <= Len(reg[e.origin][e.scope])
        /\ reg[e.origin][e.scope][e.idx].win = e.win}

\* the origins under which window win is registered for scope
OriginsBound(reg, win, scope) ==
    {e.origin : e \in {x \in Entries(reg) : x.win = win /\ x.scope = scope}}

\* C4: a build that passes validation and finds the same window and scope
\* registered raises the conflict error and leaves the registry as it was
\* when one of the two origins is "*" and the other concrete; it succeeds and
\* registers the channel when both are concrete and different.
C4_StarConflictsWithConcrete ==
    [][\A c \in ChanIds, cin \in RegCfgs :
          Build(c, "wA", cin) /\ BuildValidation("wA", cin) = NoExc =>
             LET o == ValidOrigin(cin.origin)
                 sc == IF cin.scope = Undefined THEN DefaultScope ELSE cin.scope
                 old == OriginsBound(s_boundChans["wA"], cin.window, sc)
             IN  /\ (\E k \in old : (k = Star) # (o = Star)) =>
                        /\ lastExc' = ThrowString(ConflictError)
                        /\ s_boundChans' = s_boundChans
                        /\ chan' = chan
                 /\ (old # {} /\ o # Star /\ Star \notin old /\ o \notin old) =>
                        /\ lastExc' = NoExc
                        /\ OriginsBound(s_boundChans'["wA"], cin.window, sc)
                              = old \cup {o}]_vars

\* a build has just been refused because the only channel of wA has origin
\* "*" and the new one a concrete origin
C4_Witness ==
    /\ lastExc = ThrowString(ConflictError)
    /\ chan[1].built /\ chan[1].cfg.origin = Star /\ ~chan[2].built

\* C5 as stated: no two entries of a registry have the same window and scope
\* and overlapping origins (the same origin, or one of them "*").
C5_NoOverlappingOrigins ==
    \A w \in Windows : \A e1, e2 \in Entries(s_boundChans[w]) :
       e1 # e2 /\ e1.win = e2.win /\ e1.scope = e2.scope =>
          e1.origin # e2.origin /\ e1.origin # Star /\ e2.origin # Star

\* ------------------------------------------------ bind and unbind (C6)
\* The code of wA binds and unbinds methods of channel 1, built with or
\* without cfg.publish, while the handshake with channel 2 goes on.
CfgPublish(p) == CfgInput("wB", OriginInput("https", "b.example", "", ""), Undefined,
                          p, FALSE, TRUE, {})

BindMethods == {"m", "toString"}
BindHandlers == {Returns, Delays}

InitBind ==
    TwoBuilt({1}, {Peers(NewChan(1, "wA", CfgPublish(p)), Chan2) : p \in BOOLEAN})

NextBind ==
    \/ \E c \in ChanIds : ReadyTimer(c)
    \/ \E w \in Windows : Deliver(w)
    \/ \E m \in BindMethods, h \in BindHandlers : Bind(1, m, h)
    \/ \E m \in BindMethods : Unbind(1, m)

SpecBind == InitBind /\ [][NextBind]_vars

\* C6 as stated, a method being bound when regTbl[method] is set: bind of a
\* bound method throws and leaves regTbl as it is; bind of a method whose
\* last unbind returned true succeeds and installs the handler; unbind of a
\* method that is not bound returns false and changes nothing.
C6_BindUnbind ==
    [][/\ \A m \in BindMethods, h \in BindHandlers :
             Bind(1, m, h) =>
                /\ IsSet(chan[1].regTbl, m) =>
                      /\ lastExc' = ThrowString("method is already bound!")
                      /\ chan'[1].regTbl = chan[1].regTbl
                /\ m \in chan[1].unbound =>
                      /\ lastExc' = NoExc
                      /\ m \in DOMAIN chan'[1].regTbl
                      /\ chan'[1].regTbl[m] = h
       /\ \A m \in BindMethods :
             Unbind(1, m) /\ ~IsSet(chan[1].regTbl, m) =>
                lastRet' = "false" /\ chan' = chan /\ net' = net]_vars

\* ------------------------------------------------------ notifications (C7)
\* wA notifies and calls "m"; wB has bound it to a handler that returns or
\* throws, or has bound nothing.
NotifyHandlers == {Returns, Throws(ThrowString("boom"))}

InitNotify ==
    TwoBuilt({0, 1}, {Peers(Chan1, Chan2)} \cup
                     {Peers(Chan1, Bound(Chan2, "m", h)) : h \in NotifyHandlers})

NextNotify ==
    \/ \E c \in ChanIds : ReadyTimer(c)
    \/ \E w \in Windows : Deliver(w)
    \/ Notify(1, "m", Undefined)
    \/ /\ NCalls("wA") < MaxCalls
       /\ Call(1, "m", Undefined, TRUE, TRUE, FALSE)
    \/ \E t \in timers : Timeout(t)

SpecNotify == InitNotify /\ [][NextNotify]_vars

IsNotification(m) == m.id = NoId /\ m.method # NoMethod

\* a Response or an ErrorResponse
IsReply(m) == m.id # NoId /\ m.method = NoMethod /\ m.callback = NoCallback

Thrown ==
    {ThrowString("boom"), ThrowPair("E_BAD", "bad input"),
     ThrowError("RangeError", "out of range"), ThrowObject("E_OBJ", Undefined),
     ThrowOther("42"), ThrowNull}

ThrowHandlers == {Throws(e) : e \in Thrown} \cup {CompletesThenThrows(e) : e \in Thrown}

InitThrow == TwoBuilt({1}, {Peers(Chan1, Bound(Chan2, "m", h)) : h \in ThrowHandlers})

NextThrow ==
    \/ \E c \in ChanIds : ReadyTimer(c)
    \/ \E w \in Windows : Deliver(w)
    \/ /\ NCalls("wA") < MaxCalls
       /\ \E e \in BOOLEAN : Call(1, "m", Undefined, e, FALSE, FALSE)

SpecThrow == InitThrow /\ [][NextThrow]_vars

ErrorResponse(id, error, message) ==
    [Msg EXCEPT !.id = id, !.error = error, !.message = message]

\* the ErrorResponse C10 names for x, a string or a pair caught in the
\* request branch
Wanted(x) ==
    IF x.e.t = "string" THEN ErrorResponse(x.id, "runtime_error", x.e.a)
    ELSE ErrorResponse(x.id, x.e.a, x.e.b)

PruneValues == {"f1", "p"} \cup ObjIds

InitPrune == TwoBuilt({1}, {Peers(Chan1, Chan2)})

NextPrune ==
    \/ /\ NCalls("wA") = 0
       /\ \E o \in ObjIds, k \in Keys, v \in PruneValues : SetField(o, k, v)
    \/ /\ NCalls("wA") < MaxCalls
       /\ Call(1, "m", "o1", FALSE, FALSE, FALSE)

SpecPrune == InitPrune /\ [][NextPrune]_vars

\* C9: call() with params that contain themselves, directly or through
\* nested members, throws the recursive-structure error after a walk that
\* has entered no object twice, and starts no transaction.
C9_RecursiveParamsThrow ==
    [][Call(1, "m", "o1", FALSE, FALSE, FALSE) /\ IsCyclic(heap, "o1") =>
          /\ lastExc' = ThrowString(RecursiveError)
          /\ Len(Prune([heap |-> heap, root |-> "o1"]).seen) <= Cardinality(ObjIds)
          /\ chan' = chan
          /\ s_transIds' = s_transIds
          /\ s_curTranId' = s_curTranId]_vars

\* call() has just thrown the recursive-structure error for params in which
\* o1 is reached from itself through o2
C9_Witness ==
    /\ lastExc = ThrowString(RecursiveError)
    /\ Reaches(heap, "o1", "o2", MaxObjs)
    /\ Reaches(heap, "o2", "o1", MaxObjs)

\* ------------------------------------------------------- callbacks (C8)
\* In one turn the code of wA builds params with functions in them and
\* calls "m"; the handler wB has bound keeps the transaction, calls the
\* functions it finds in params and completes later.
CallbackValues == Fns \cup ObjIds

InitCallback == TwoBuilt({1}, {Peers(Chan1, Bound(Chan2, "m", Delays))})

NextCallback ==
    \/ /\ NCalls("wA") = 0 /\ timers = {ReadyTimerOf(1), ReadyTimerOf(2)}
       /\ \E o \in ObjIds, k \in Keys, v \in CallbackValues : SetField(o, k, v)
    \/ /\ NCalls("wA") < MaxCalls /\ timers = {ReadyTimerOf(1), ReadyTimerOf(2)}
       /\ Call(1, "m", "o1", FALSE, FALSE, FALSE)
    \/ \E c \in ChanIds : ReadyTimer(c)
    \/ \E w \in Windows : Deliver(w)
    \/ \E h \in held : \E at \in DOMAIN h.params : HeldInvoke(h, at)
    \/ \E h \in held : HeldComplete(h)

SpecCallback == InitCallback /\ [][NextCallback]_vars

\* the message has reached the dispatcher of window w
Arrived(c, w, m) ==
    /\ \A i \in 1..Len(net[w]) : net[w][i].data # m
    /\ \A i \in 1..Len(chan[c].pendingQueue) : chan[c].pendingQueue[i] # m

\* C8 as stated, for every function f.fn that call() found at f.path (p is
\* the path as written on the wire): the Request lists p in callbacks and
\* carries no function; the params the handler got have a callable at p that
\* invokes callback p; and a CallbackInvocation for p that has reached the
\* caller has run f.fn.
C8_CallbackRoundTrip ==
    \A k \in CallsOf("wA") : \A f \in k.h.fns :
       LET p == Flat(f.path)
       IN  /\ \A m \in chan[1].posted :
                m.id = k.id /\ m.method # NoMethod =>
                   /\ InSeq(p, m.callbacks)
                   /\ \A q \in DOMAIN m.params : m.params[q].t # "function"
           /\ \A r \in chan[2].handled :
                r.id = k.id =>
                   /\ TypeOfNode(r.params, SplitPath(p)) = "function"
                   /\ r.params[SplitPath(p)].cb = p
           /\ \A m \in chan[2].posted :
                m.id = k.id /\ m.callback = p /\ Arrived(2, "wA", m) =>
                   [fn |-> f.fn, callback |-> p] \in k.h.ran

\* --------------------------------------- transactions kept by a handler (C11)
\* A script of wA posts Requests for "m" to wB, where channel 2 has bound "m"
\* to a handler that keeps every transaction it is given and calls complete
\* or error on the ones it keeps whenever it likes; wB may destroy channel 2.
MaxReqs == 2

ReqIds == {7, 8}

Request(id, method) ==
    [Msg EXCEPT !.id = id, !.method = scopeMethod(DefaultScope, method)]

\* trans.complete / trans.error set the completed flag of the closure first
Called(S, h) == [S EXCEPT !.held = (@ \ {h}) \cup {[h EXCEPT !.done = TRUE]}]

\* the handler calls trans.complete(v) on a transaction it keeps
KeptComplete(h) ==
    /\ h \in held
    /\ Len(net[chan[h.chan].cfg.window]) < MaxNet
    /\ Len(chan[h.chan].pendingQueue) < MaxNet
    /\ Commit(h.chan, TransComplete(Called(MkS(h.chan), h),
                                    [id |-> h.id, callbacks |-> h.callbacks], "late"))

\* ... or trans.error(error, message)
KeptError(h) ==
    /\ h \in held
    /\ Len(net[chan[h.chan].cfg.window]) < MaxNet
    /\ Len(chan[h.chan].pendingQueue) < MaxNet
    /\ Commit(h.chan, TransError(Called(MkS(h.chan), h),
                                 [id |-> h.id, callbacks |-> h.callbacks],
                                 "E_LATE", "late"))

InitTrans == TwoBuilt({1}, {Peers(Chan1, Bound(Chan2, "m", Delays))})

NextTrans ==
    \/ \E c \in ChanIds : ReadyTimer(c)
    \/ \E w \in Windows : Deliver(w)
    \/ /\ chan[2].nTrans + Len(net["wB"]) < MaxReqs
       /\ \E id \in ReqIds : Inject("wB", "wA", Request(id, "m"))
    \/ \E h \in held : KeptComplete(h)
    \/ \E h \in held : KeptError(h)
    \/ chan[2].chanId # "" /\ Destroy(2)

SpecTrans == InitTrans /\ [][NextTrans]_vars

\* C11 as stated: complete() or error() on a transaction on which one of them
\* has been called before, or whose id is not in the inbound table of its
\* channel, throws and hands no message to postMessage.
C11_CompletedAtMostOnce ==
    [][\A h \in held :
          /\ KeptComplete(h) \/ KeptError(h)
          /\ h.done \/ h.id \notin chan[h.chan].inTbl
          => /\ lastExc' # NoExc
             /\ net' = net
             /\ chan'[h.chan].pendingQueue = chan[h.chan].pendingQueue]_vars

\* ------------------------------------------- handlers that return (C12)
\* wA calls "m"; the handler wB has bound returns a string or an object that
\* contains itself, keeps the transaction with delayReturn(true) and
\* completes or fails it later, or completes or fails it before it returns.
ReturnHandlers ==
    {Returns, ReturnsValue(Circular), Delays, CompletesThenReturns, ErrorsThenReturns}

InitReturn == TwoBuilt({1}, {Peers(Chan1, Bound(Chan2, "m", h)) : h \in ReturnHandlers})

NextReturn ==
    \/ \E c \in ChanIds : ReadyTimer(c)
    \/ \E w \in Windows : Deliver(w)
    \/ /\ NCalls("wA") < MaxCalls
       /\ \E e \in BOOLEAN : Call(1, "m", Undefined, e, FALSE, FALSE)
    \/ \E h \in held : HeldComplete(h)
    \/ \E h \in held : HeldError(h)

SpecReturn == InitReturn /\ [][NextReturn]_vars

\* the messages channel c hands to postMessage in a step that does not flush
\* its pending queue: what the step appends to the peer's queue of message
\* events and to the pending queue
Handed(c) ==
    LET p == chan[c].cfg.window
    IN  [i \in 1..(Len(net'[p]) - Len(net[p])) |-> net'[p][Len(net[p]) + i].data]
        \o SubSeq(chan'[c].pendingQueue, Len(chan[c].pendingQueue) + 1,
                  Len(chan'[c].pendingQueue))

Response(id, result) == [Msg EXCEPT !.id = id, !.result = result]

\* the channel and the handler the first message event of window w is a
\* Request for: [c |-> 0] when it is none, or its method is not bound
RequestFor(w) ==
    LET m == Head(net[w]).data
        sp == SplitMethod(m.method)
        c == IF sp.meth = Undefined THEN 0
             ELSE RouteByMethod(s_boundChans[w], Head(net[w]).origin, sp.s,
                                Head(net[w]).source)
    IN  IF Truthy(m.id) /\ c # 0 /\ sp.meth \in DOMAIN chan[c].regTbl
        THEN [c |-> c, id |-> m.id, h |-> chan[c].regTbl[sp.meth]]
        ELSE [c |-> 0, id |-> m.id, h |-> Inherited]

\* C12 as stated, for the dispatch of a Request whose handler returns: a
\* handler that did nothing with the transaction has exactly one Response
\* with its return value posted; one that set delayReturn(true) has nothing
\* posted and its transaction still open; one that completed or failed the
\* transaction has that one reply posted and no other.
C12_ReturnBecomesResponse ==
    [][\A w \in Windows :
          Deliver(w) /\ RequestFor(w).c # 0 /\ RequestFor(w).h.kind = "user"
             /\ RequestFor(w).h.end = "return" =>
             LET r == RequestFor(w)
             IN  /\ r.h.pre = "none" =>
                       Handed(r.c) = <<Response(r.id, IF r.h.val.t = "value"
                                                      THEN r.h.val.a ELSE "r")>>
                 /\ r.h.pre = "delay" =>
                       Handed(r.c) = <<>> /\ r.id \in chan'[r.c].inTbl
                 /\ r.h.pre \in {"complete", "error"} =>
                       /\ Len(Handed(r.c)) = 1
                       /\ Handed(r.c)[1].id = r.id
                       /\ r.id \notin chan'[r.c].inTbl]_vars

\* --------------------------------------------- methods not bound (C13)
\* wA calls "m", "n" and "toString"; wB has bound "m" or nothing, and may
\* unbind "m".
CallMethods == {"m", "n", "toString"}

InitUnbound == TwoBuilt({1}, {Peers(Chan1, Chan2), Peers(Chan1, Bound(Chan2, "m", Returns))})

NextUnbound ==
    \/ \E c \in ChanIds : ReadyTimer(c)
    \/ \E w \in Windows : Deliver(w)
    \/ /\ NCalls("wA") < MaxCalls
       /\ \E m \in CallMethods, e \in BOOLEAN : Call(1, m, Undefined, e, FALSE, FALSE)
    \/ Unbind(2, "m")

SpecUnbound == InitUnbound /\ [][NextUnbound]_vars

\* the channel, id and method the first message event of window w is a
\* Request for: [c |-> 0] when it is none
RequestTo(w) ==
    LET m == Head(net[w]).data
        sp == SplitMethod(m.method)
        c == IF sp.meth = Undefined THEN 0
             ELSE RouteByMethod(s_boundChans[w], Head(net[w]).origin, sp.s,
                                Head(net[w]).source)
    IN  [c |-> IF Truthy(m.id) THEN c ELSE 0, id |-> m.id, meth |-> sp.meth]

\* C13 as stated, a method being bound when bind has installed a handler for
\* it that no unbind has removed: the dispatch of a Request for a method that
\* is not bound ends without exception, hands exactly the ErrorResponse
\* "method_not_found" for the id to postMessage and leaves the id out of the
\* inbound table.
C13_MethodNotFound ==
    [][\A w \in Windows :
          Deliver(w) /\ RequestTo(w).c # 0
             /\ RequestTo(w).meth \notin DOMAIN chan[RequestTo(w).c].regTbl =>
             LET r == RequestTo(w)
             IN  /\ lastExc' = NoExc
                 /\ Handed(r.c) = <<ErrorResponse(r.id, "method_not_found",
                                                  "No method was (yet) bound")>>
                 /\ r.id \notin chan'[r.c].inTbl]_vars

\* ------------------------------- exceptions at the dispatch boundary (C14)
\* wA calls and notifies "m"; the handler wB has bound throws, at once or
\* after it has completed the transaction.
InitDispatch == TwoBuilt({1}, {Peers(Chan1, Bound(Chan2, "m", h)) : h \in ThrowHandlers})

NextDispatch ==
    \/ \E c \in ChanIds : ReadyTimer(c)
    \/ \E w \in Windows : Deliver(w)
    \/ /\ NCalls("wA") < MaxCalls
       /\ Call(1, "m", Undefined, TRUE, FALSE, FALSE)
    \/ Notify(1, "m", Undefined)

SpecDispatch == InitDispatch /\ [][NextDispatch]_vars

\* the channel s_onMessage hands the first message event of window w to
\* because of its method, with the id and the handler bound to the method:
\* [c |-> 0] when there is no such channel or no handler
DispatchOf(w) ==
    LET m == Head(net[w]).data
        sp == SplitMethod(m.method)
        c == IF sp.meth = Undefined THEN 0
             ELSE RouteByMethod(s_boundChans[w], Head(net[w]).origin, sp.s,
                                Head(net[w]).source)
    IN  IF c # 0 /\ IsSet(chan[c].regTbl, sp.meth)
        THEN [c |-> c, id |-> m.id, h |-> Get(chan[c].regTbl, sp.meth)]
        ELSE [c |-> 0, id |-> m.id, h |-> Inherited]

\* C14 as stated: the dispatch of a Request or a Notification to a handler
\* that throws ends without exception, whatever the handler did before, and
\* for a Request hands an ErrorResponse for its id to postMessage.
C14_HandlerExceptionsCaught ==
    [][\A w \in Windows :
          Deliver(w) /\ DispatchOf(w).c # 0 /\ DispatchOf(w).h.end = "throw" =>
             LET d == DispatchOf(w)
             IN  /\ lastExc' = NoExc
                 /\ Truthy(d.id) =>
                       \E i \in 1..Len(Handed(d.c)) :
                          /\ Handed(d.c)[i].id = d.id
                          /\ ~Falsy(Handed(d.c)[i].error)]_vars

\* ------------------------------------- the pending queue (C15, C16)
\* Channel 1 of wA was built with a stub for "s" and has bound "m".  Until
\* it is ready its code calls and notifies "m" and uses the stub; a script
\* of wB posts it a Request with a callback, which its handler answers at
\* once or keeps, completes, fails and calls back later.
CfgRemote == CfgInput("wB", OriginInput("https", "b.example", "", ""), Undefined,
                      FALSE, FALSE, TRUE, {"s"})

\* obj.remote[m](params, success, error): the function createStubs installs
Stub(c, m, hasSuccess, hasError) ==
    /\ m \in chan[c].remote
    /\ IF hasSuccess THEN Call(c, m, Undefined, hasError, FALSE, FALSE)
       ELSE Notify(c, m, Undefined)

\* a Request whose params is an object and whose callbacks name its member a
CbRequest(id, method) ==
    [Request(id, method) EXCEPT !.params = TreeOf({<<<<>>, ObjNode>>}),
                                !.callbacks = <<<<"a">>>>]

QueueHandlers == {Returns, Delays}

\* channel c has not notified method yet
NotYet(c, method) ==
    \A x \in chan[c].posted : ~(IsNotification(x) /\ x.method[2] = method)

InitQueue ==
    TwoBuilt({1}, {Peers(Bound(NewChan(1, "wA", CfgRemote), "m", h),
                         Bound(Chan2, "m", Returns)) : h \in QueueHandlers})

NextQueue ==
    \/ \E c \in ChanIds : ReadyTimer(c)
    \/ \E w \in Windows : Deliver(w)
    \/ /\ ~chan[1].ready /\ NCalls("wA") < MaxCalls
       /\ Call(1, "m", Undefined, TRUE, FALSE, FALSE)
    \/ ~chan[1].ready /\ NotYet(1, "m") /\ Notify(1, "m", Undefined)
    \/ /\ ~chan[1].ready /\ NCalls("wA") < MaxCalls
       /\ Stub(1, "s", TRUE, TRUE)
    \/ ~chan[1].ready /\ NotYet(1, "s") /\ Stub(1, "s", FALSE, TRUE)
    \/ /\ chan[1].nTrans = 0 /\ net["wA"] = <<>>
       /\ Inject("wA", "wB", CbRequest(7, "m"))
    \/ \E h \in held : HeldComplete(h)
    \/ \E h \in held : HeldError(h)
    \/ \E h \in held : \E at \in DOMAIN h.params : HeldInvoke(h, at)

SpecQueue == InitQueue /\ [][NextQueue]_vars

\* the handshake Notification build posts from its timer
IsHandshakeRequest(m) ==
    m.id = NoId /\ m.method # NoMethod /\ m.method[2] = "__ready"
       /\ m.type = "publish-request"

\* a step of the code of wA that makes channel 1 produce a message
Produces1 ==
    \/ Call(1, "m", Undefined, TRUE, FALSE, FALSE)
    \/ Notify(1, "m", Undefined)
    \/ \E hs \in BOOLEAN : Stub(1, "s", hs, TRUE)
    \/ \E h \in held : HeldComplete(h) \/ HeldError(h)
    \/ \E h \in held : \E at \in DOMAIN h.params : HeldInvoke(h, at)

\* C15: in a step that begins and ends with channel 1 not ready, all that
\* reaches the transport from wA is the handshake Notification of the build
\* timer; call, notify, a stub and complete, error and invoke of a
\* transaction append their message to the pending queue, and so does the
\* reply to a Request that is dispatched.
C15_NotReadyQueues ==
    [][~chan[1].ready /\ ~chan'[1].ready =>
          /\ \A i \in (Len(net["wB"]) + 1)..Len(net'["wB"]) :
                IsHandshakeRequest(net'["wB"][i].data)
          /\ Produces1 /\ lastExc' = NoExc =>
                /\ net' = net
                /\ Len(chan'[1].pendingQueue) = Len(chan[1].pendingQueue) + 1
                /\ SubSeq(chan'[1].pendingQueue, 1, Len(chan[1].pendingQueue))
                      = chan[1].pendingQueue
          /\ Deliver("wA") /\ RequestFor("wA").c = 1
                /\ RequestFor("wA").h = Returns =>
                /\ net'["wB"] = net["wB"]
                /\ chan'[1].pendingQueue =
                      Append(chan[1].pendingQueue, Response(RequestFor("wA").id, "r"))]_vars

\* channel 1 has sent its handshake and is not ready; its pending queue holds
\* a Request, a Notification and a reply to a Request it was sent
C15_Witness ==
    /\ ~chan[1].ready /\ ReadyTimerOf(1) \notin timers
    /\ \E i, j, k \in 1..Len(chan[1].pendingQueue) :
          /\ chan[1].pendingQueue[i].id # NoId
          /\ chan[1].pendingQueue[i].method # NoMethod
          /\ IsNotification(chan[1].pendingQueue[j])
          /\ IsReply(chan[1].pendingQueue[k])

CfgReconnect(r) == CfgInput("wA", OriginInput("https", "a.example", "", ""), Undefined,
                            FALSE, r, TRUE, {})

Handshake(type) ==
    [Msg EXCEPT !.method = scopeMethod(DefaultScope, "__ready"), !.type = type]

InitHandshake ==
    TwoBuilt({1}, {Peers(Chan1, NewChan(2, "wB", CfgReconnect(r))) : r \in BOOLEAN})

NextHandshake ==
    \/ \E c \in ChanIds : ReadyTimer(c)
    \/ \E w \in Windows : Deliver(w)
    \/ \E t \in {"publish-request", "publish-reply"} :
          Inject("wA", "wB", Handshake(t))
    \/ /\ NCalls("wA") < MaxCalls
       /\ Call(1, "m", Undefined, TRUE, FALSE, FALSE)

SpecHandshake == InitHandshake /\ [][NextHandshake]_vars

\* the first message event of window w is a handshake Notification for a
\* channel that is ready and has reconnect disabled: the channel, or 0
SecondHandshake(w) ==
    LET m == Head(net[w]).data
        sp == SplitMethod(m.method)
        c == IF sp.meth = Undefined THEN 0
             ELSE RouteByMethod(s_boundChans[w], Head(net[w]).origin, sp.s,
                                Head(net[w]).source)
    IN  IF c # 0 /\ m.id = NoId /\ sp.meth = "__ready" /\ chan[c].ready
           /\ ~chan[c].cfg.reconnect
        THEN c ELSE 0

ReadyWhileReady == ThrowString("received ready message while in ready state.")

RouteCfgs ==
    {CfgInput(w, o, sc, FALSE, FALSE, FALSE, {}) :
        w \in {"wB", "wC"},
        o \in {StarInput, OriginInput("https", "b.example", "", "")},
        sc \in {Undefined, "s"}}

RouteMsgs ==
    {Request(7, "m"),
     [Msg EXCEPT !.id = 7, !.method = scopeMethod("s", "m")],
     [Msg EXCEPT !.id = 7, !.method = scopeMethod("zz", "m")],
     [Msg EXCEPT !.id = 7, !.method = scopeMethod(DefaultScope, "x::y")],
     Handshake("publish-request"),
     Msg}

InitRoute == Init /\ \A w \in Windows : s_curTranId[w] = 1

\* the Requests dispatched so far to channels 1..n
RECURSIVE Dispatched(_)
Dispatched(n) == IF n = 0 THEN 0 ELSE chan[n].nTrans + Dispatched(n - 1)

NextRoute ==
    \/ \E c \in ChanIds, cin \in RouteCfgs : Build(c, "wA", cin)
    \/ \E w \in Windows : Deliver(w)
    \/ /\ net["wA"] = <<>>
       /\ Dispatched(MaxChans) < MaxReqs
       /\ \E src \in {"wB", "wC"}, m \in RouteMsgs : Inject("wA", src, m)

SpecRoute == InitRoute /\ [][NextRoute]_vars

\* the channels of window w registered for the window, the scope and one of
\* the origins of a message event
RegisteredFor(w, source, scope, origins) ==
    {c \in ChanIds : /\ chan[c].built /\ chan[c].win = w /\ chan[c].chanId # ""
                     /\ chan[c].cfg.window = source
                     /\ chan[c].cfg.scope = scope
                     /\ chan[c].cfg.origin \in origins}

\* C18: the dispatch of a message with a method changes the state of at most
\* one channel, which is registered for the sender's window and the scope of
\* the message under the sender's origin or, when there is no such channel,
\* under "*"; a Request changes the state of one when there is one.  When
\* none is registered for them, and when the message has neither method nor
\* id, the dispatch changes nothing but the queue of message events.
C18_AtMostOneChannel ==
    [][\A w \in Windows :
          Deliver(w) =>
             LET e == Head(net[w])
                 sp == SplitMethod(e.data.method)
                 exact == RegisteredFor(w, e.source, sp.s, {e.origin})
                 star == RegisteredFor(w, e.source, sp.s, {Star})
                 changed == {c \in ChanIds : chan'[c] # chan[c]}
             IN  /\ e.data.method # NoMethod =>
                       /\ Cardinality(changed) <= 1
                       /\ changed \subseteq (IF exact # {} THEN exact ELSE star)
                       /\ Truthy(e.data.id) /\ sp.meth # "<scope::x::y>"
                             /\ exact \cup star # {} => changed # {}
                 /\ \/ e.data.method # NoMethod /\ exact \cup star = {}
                    \/ e.data.method = NoMethod /\ e.data.id = NoId
                    => /\ changed = {}
                       /\ net' = [net EXCEPT ![w] = Tail(@)]
                       /\ UNCHANGED <<s_boundChans, s_transIds, s_curTranId,
                                      timers, held, hist>>]_vars

\* window wA has two channels for the default scope, one to wB and one to
\* wC; a Request of wC has been dispatched to the second and none to the
\* first
C18_Witness ==
    /\ chan[1].built /\ chan[1].cfg.window = "wB" /\ chan[1].cfg.scope = DefaultScope
    /\ chan[2].built /\ chan[2].cfg.window = "wC" /\ chan[2].cfg.scope = DefaultScope
    /\ chan[1].cfg.origin = Star /\ chan[2].cfg.origin = Star
    /\ chan[1].nTrans = 0 /\ chan[2].nTrans = 1

\* --------------------------------------- messages of other senders (C19)
\* Window wA has a channel to window wB under the origin of wB and calls "m"
\* with params that may hold functions; the handler of wB keeps the
\* transaction, invokes the functions and completes.  Meanwhile scripts of
\* window wC, and a document of another origin loaded in window wB, post wA
\* Responses, ErrorResponses and CallbackInvocations with the id of the call.

\* a script running in window src in a document of the given origin posts
\* msg to window w
InjectFrom(w, src, origin, msg) ==
    /\ Len(net[w]) < MaxNet
    /\ net' = [net EXCEPT ![w] = Append(@, [source |-> src, origin |-> origin,
                                            data |-> msg])]
    /\ lastExc' = NoExc
    /\ lastRet' = Undefined
    /\ UNCHANGED <<s_curTranId, s_boundChans, s_transIds, chan, timers, heap, held, hist>>

CallbackInvocation(id, callback) == [Msg EXCEPT !.id = id, !.callback = callback]

\* what a sender that knows the id of a call can post for it
Answers(id) ==
    {Response(id, "r"), ErrorResponse(id, "E", "spoofed")}
       \cup {CallbackInvocation(id, k) : k \in {<<"a">>, <<"b">>}}

Senders == {[source |-> "wC", origin |-> OriginC],
            [source |-> "wB", origin |-> OriginC]}

InitSpoof == TwoBuilt({1}, {Peers(Chan1, Bound(Chan2, "m", Delays))})

NextSpoof ==
    \/ /\ NCalls("wA") = 0
       /\ \E f \in Fns : SetField("o1", <<"a">>, f)
    \/ /\ NCalls("wA") < MaxCalls
       /\ \E e \in BOOLEAN : Call(1, "m", "o1", e, FALSE, FALSE)
    \/ \E c \in {1, 2} : ReadyTimer(c)
    \/ \E w \in {"wA", "wB"} : Deliver(w)
    \/ \E h \in held : \E at \in DOMAIN h.params : HeldInvoke(h, at)
    \/ \E h \in held : HeldComplete(h)
    \/ /\ net["wA"] = <<>>
       /\ \E id \in DOMAIN s_transIds["wA"], x \in Senders :
             \E m \in Answers(id) : InjectFrom("wA", x.source, x.origin, m)

SpecSpoof == InitSpoof /\ [][NextSpoof]_vars

\* what user code of the call has seen, and the table entries of the call
Acted(hs, id) ==
    IF id \in DOMAIN hs
    THEN [ran |-> hs[id].ran, nSuccess |-> hs[id].nSuccess, nError |-> hs[id].nError]
    ELSE [ran |-> {}, nSuccess |-> 0, nError |-> 0]

\* C19: the dispatch in window w of a Response, ErrorResponse or
\* CallbackInvocation that carries the id of an outstanding call of channel
\* c, and was sent by another window than the one c is configured for or
\* from another origin, runs none of the success, error and callback
\* functions of the call and leaves its entries in the tables.
C19_ForeignAnswerNeverActs ==
    [][\A w \in Windows :
          Deliver(w) =>
             LET e == Head(net[w])
                 id == e.data.id
             IN  /\ e.data.method = NoMethod
                 /\ id \in DOMAIN s_transIds[w]
                 /\ \/ e.source # chan[s_transIds[w][id]].cfg.window
                    \/ /\ chan[s_transIds[w][id]].cfg.origin # Star
                       /\ e.origin # chan[s_transIds[w][id]].cfg.origin
                 => /\ Acted(hist'[w], id) = Acted(hist[w], id)
                    /\ s_transIds'[w] = s_transIds[w]
                    /\ chan'[s_transIds[w][id]].outTbl
                          = chan[s_transIds[w][id]].outTbl]_vars

\* ------------------------------------------- destroy and the handshake (C20)
\* The code of window wA builds channels to wB and wC and destroys them,
\* before or after their timers fire; it calls "m" on the first; scripts of
\* wB post wA the two handshake messages until a channel has taken one.
DestroyCfgs == {CfgToB, CfgToC}

InitDestroy == Init /\ \A w \in Windows : s_curTranId[w] = 1

NextDestroy ==
    \/ \E c \in ChanIds, cin \in DestroyCfgs : Build(c, "wA", cin)
    \/ \E c \in ChanIds : ReadyTimer(c)
    \/ \E c \in ChanIds : Destroy(c)
    \/ Deliver("wA")
    \/ /\ NCalls("wA") < MaxCalls
       /\ Call(1, "m", Undefined, TRUE, FALSE, FALSE)
    \/ /\ net["wA"] = <<>>
       /\ \A c \in ChanIds : chan[c].nReady = 0
       /\ \E t \in {"publish-request", "publish-reply"} :
             Inject("wA", "wB", Handshake(t))

SpecDestroy == InitDestroy /\ [][NextDestroy]_vars

\* destroy() has run on the channel
Destroyed(c) == chan[c].built /\ chan[c].chanId = ""

\* the handshake requests channel c has passed to postMessage
HandshakesOf(ch) == {m \in ch.posted : IsHandshakeRequest(m)}

TeardownCfgs ==
    {CfgInput(w, o, Undefined, FALSE, FALSE, FALSE, {}) :
        w \in {"wB", "wC"},
        o \in {StarInput, OriginInput("https", "b.example", "", "")}}

InitTeardown == Init /\ \A w \in Windows : s_curTranId[w] = 1

NextTeardown ==
    \/ \E c \in ChanIds, cin \in TeardownCfgs : Build(c, "wA", cin)
    \/ \E c \in ChanIds : Destroy(c)
    \/ \E c \in ChanIds : ReadyTimer(c)
    \/ Deliver("wA")
    \/ /\ NCalls("wA") < MaxCalls
       /\ Call(1, "m", Undefined, TRUE, FALSE, FALSE)
    \/ /\ net["wA"] = <<>>
       /\ Dispatched(MaxChans) < MaxReqs
       /\ \E src \in {"wB", "wC"} :
             \E m \in {Request(7, "m"), [Msg EXCEPT !.method = scopeMethod(DefaultScope, "m")]} :
                Inject("wA", src, m)

SpecTeardown == InitTeardown /\ [][NextTeardown]_vars

\* the entries of a registry, each with the channel whose onMessage it holds
Registered(reg) ==
    {e \in [origin : DOMAIN reg, scope : UNION {DOMAIN reg[k] : k \in DOMAIN reg},
            win : Windows, handler : ChanIds] :
        /\ e.scope \in DOMAIN reg[e.origin]
        /\ \E i \in 1..Len(reg[e.origin][e.scope]) :
              reg[e.origin][e.scope][i] = [win |-> e.win, handler |-> e.handler]}

\* C21 as stated.  A destroy() of a channel that was not destroyed before
\* removes the entries of the channel from the registry, with the bucket
\* when it is left empty, and leaves the entries of other channels; it
\* leaves ready false and the three tables and the pending queue empty.  The
\* dispatch of a Request or Notification changes no destroyed channel.  A
\* build that passes validation while no channel that is not destroyed has
\* its window and scope raises no conflict error.
C21_DestroyCleansUp ==
    [][\A w \in Windows :
          LET reg == s_boundChans[w]
              reg2 == s_boundChans'[w]
          IN  /\ \A c \in ChanIds :
                    Destroy(c) /\ chan[c].win = w /\ ~Destroyed(c) =>
                       /\ Registered(reg2) = {e \in Registered(reg) : e.handler # c}
                       /\ \A o \in DOMAIN reg2 : \A sc \in DOMAIN reg2[o] :
                             reg2[o][sc] # <<>>
                       /\ ~chan'[c].ready
                       /\ chan'[c].regTbl = EmptyFn /\ chan'[c].inTbl = {}
                       /\ chan'[c].outTbl = EmptyFn /\ chan'[c].pendingQueue = <<>>
              /\ Deliver(w) /\ Head(net[w]).data.method # NoMethod =>
                    \A c \in ChanIds : Destroyed(c) => chan'[c] = chan[c]
              /\ \A c \in ChanIds, cin \in TeardownCfgs :
                    /\ Build(c, w, cin)
                    /\ BuildValidation(w, cin) = NoExc
                    /\ \A d \in ChanIds :
                          chan[d].built /\ ~Destroyed(d) /\ chan[d].win = w
                             => chan[d].cfg.window # cin.window
                    => lastExc' = NoExc /\ chan'[c].built]_vars

\* ------------------------------------------- the OskariRPC client (C22)
\* The page in window wA connects a client to the iframe window wB; the page
\* in wB builds a channel for scope "Oskari" and binds the introspection
\* method and the methods it names.  The code of wA calls the functions the
\* client has installed, with and without callbacks.

\* the cfg that OskariRPC.connect passes to JSChannel.build
ClientCfg(window, origin) ==
    [window |-> window, origin |-> origin, scope |-> ClientScope, publish |-> FALSE,
     reconnect |-> FALSE, onReady |-> TRUE, remote |-> {}, client |-> TRUE]

\* OskariRPC.connect(target, origin), target an element whose contentWindow
\* is window (NoWindow: it has none)
Connect(c, w, window, origin) ==
    IF window = NoWindow \/ origin.scheme \notin {"http", "https"}
    THEN /\ ~chan[c].built
         /\ lastExc' = IF window = NoWindow
                       THEN ThrowError("TypeError", "Target is missing contentWindow.")
                       ELSE ThrowError("TypeError", "Invalid origin")
         /\ lastRet' = Undefined
         /\ UNCHANGED <<s_curTranId, s_boundChans, s_transIds, chan, timers,
                        net, heap, held, hist>>
    ELSE Build(c, w, ClientCfg(window, origin))

MissingSuccess == ThrowString("'success' callback missing from call")

\* the arguments of RPC_API[name](params, success, error): first is what
\* params is, second and third whether success and error are functions
Firsts == {"array", "function", "none"}

\* what the function's own tests make of the arguments
ShiftedArgs(name, first, second, third) ==
    IF name = "getInfo"
    THEN [success |-> first = "function", error |-> second]
    ELSE IF first = "function"
    THEN [success |-> TRUE, error |-> second]
    ELSE [success |-> second, error |-> third]

\* the function __bindFunctionCall installs (first one that notifies when it
\* was given no success callback)
ApiFnNotifies(S, name, first, second, third) ==
    LET a == ShiftedArgs(name, first, second, third)
    IN  IF ~a.success THEN notify(S, name, Msg)
        ELSE [call(S, name, Undefined, TRUE, FALSE, FALSE)
                 EXCEPT !.ch.rpc.defaulted = IF a.error THEN @ ELSE @ \cup {S.cur}]

ApiFn(S, name, first, second, third) ==
    LET a == ShiftedArgs(name, first, second, third)
    IN  IF ~a.success THEN Throw(S, MissingSuccess)
        ELSE [call(S, name, Undefined, TRUE, FALSE, FALSE)
                 EXCEPT !.ch.rpc.defaulted = IF a.error THEN @ ELSE @ \cup {S.cur}]

ApiCall(c, name, first, second, third) ==
    /\ chan[c].built
    /\ name \in chan[c].rpc.api
    /\ Len(chan[c].pendingQueue) < MaxNet
    /\ Len(net[chan[c].cfg.window]) < MaxNet
    /\ Commit(c, ApiFn(MkS(c), name, first, second, third))

\* what the page in wB answers to the introspection call
FuncNames == {"{}", "{f}", "{f,getInfo}"}

CfgOskari == CfgInput("wA", OriginInput("https", "a.example", "", ""), ClientScope,
                      FALSE, FALSE, FALSE, {})

InitClient == Init /\ \A w \in Windows : s_curTranId[w] = 1

NextClient ==
    \/ \E t \in {"wB", NoWindow} :
          \E o \in {OriginInput("https", "b.example", "", ""), StarInput} :
             Connect(1, "wA", t, o)
    \/ Build(2, "wB", CfgOskari)
    \/ /\ ~IsSet(chan[2].regTbl, Introspection)
       /\ \E v \in FuncNames : Bind(2, Introspection, ReturnsValue(v))
    \/ \E name \in {"f", "getInfo"} :
          ~IsSet(chan[2].regTbl, name) /\ Bind(2, name, Returns)
    \/ \E c \in ChanIds : ReadyTimer(c)
    \/ \E w \in {"wA", "wB"} : Deliver(w)
    \/ /\ NCalls("wA") < MaxCalls + 1
       /\ \E name \in {"f", "getInfo"}, first \in Firsts, second, third \in BOOLEAN :
             ApiCall(1, name, first, second, third)

SpecClient == InitClient /\ [][NextClient]_vars

\* the Requests for method that channel c has posted
RequestsOf(ch, method) ==
    {m \in ch.posted : m.id # NoId /\ m.method = scopeMethod(ch.cfg.scope, method)}

\* the Notifications for method that channel c has posted
NotificationsOf(ch, method) ==
    {m \in ch.posted : m.id = NoId /\ m.method = scopeMethod(ch.cfg.scope, method)}

\* the client's channel runs the onReady of its cfg in this step
ClientReadyStep(c) == chan[c].rpc.connected /\ chan'[c].nReady = chan[c].nReady + 1

\* the success callback of call id of the client's channel runs in this step
\* (with the result of the message dispatched)
SuccessStep(c, id) ==
    /\ Deliver(chan[c].win)
    /\ id \in DOMAIN hist[chan[c].win]
    /\ hist'[chan[c].win][id].nSuccess = hist[chan[c].win][id].nSuccess + 1

\* the first two parts of C22: the step in which the channel of a client
\* runs onReady, and no other step, makes one call for the introspection
\* method; the step in which the success callback of that call runs installs
\* a function under each name of the result, and no other step installs one.
IntrospectionInstalls(c) ==
    /\ IF ClientReadyStep(c)
       THEN /\ Cardinality(DOMAIN chan'[c].outTbl \ DOMAIN chan[c].outTbl) = 1
            /\ \A id \in DOMAIN chan'[c].outTbl \ DOMAIN chan[c].outTbl :
                  \E m \in RequestsOf(chan'[c], Introspection) : m.id = id
       ELSE RequestsOf(chan'[c], Introspection) = RequestsOf(chan[c], Introspection)
    /\ IF \E id \in chan[c].rpc.introspect : SuccessStep(c, id)
       THEN chan'[c].rpc.api
               = chan[c].rpc.api \cup OwnNames(Head(net[chan[c].win]).data.result)
       ELSE chan'[c].rpc.api = chan[c].rpc.api

\* the function installed under name, given a success callback, makes a call
\* for the method name
ForwardsCall(c, name) ==
    /\ lastExc' = NoExc
    /\ Cardinality(DOMAIN chan'[c].outTbl \ DOMAIN chan[c].outTbl) = 1
    /\ \A id \in DOMAIN chan'[c].outTbl \ DOMAIN chan[c].outTbl :
          \E m \in RequestsOf(chan'[c], name) : m.id = id
    /\ NotificationsOf(chan'[c], name) = NotificationsOf(chan[c], name)

\* C22 as stated: ... and the installed function performs call when a
\* success callback is supplied and notify when none is supplied.
C22_StubsCallOrNotify ==
    [][\A c \in ChanIds :
          /\ IntrospectionInstalls(c)
          /\ \A name \in {"f"}, first \in {"array", "none"}, second, third \in BOOLEAN :
                ApiCall(c, name, first, second, third) =>
                   IF second THEN ForwardsCall(c, name)
                   ELSE /\ lastExc' = NoExc
                        /\ chan'[c].outTbl = chan[c].outTbl
                        /\ NotificationsOf(chan'[c], name) # {}]_vars

\* C22 as the code has it: the installed function takes a function given in
\* the place of params as the success callback ("getInfo" takes nothing
\* else); it performs call when it has a success callback and otherwise
\* throws what call throws for a missing success callback, leaving every
\* table and queue as it was.  It never performs notify.
C22_StubsCallOrThrow ==
    [][\A c \in ChanIds :
          /\ IntrospectionInstalls(c)
          /\ \A name \in {"f", "getInfo"}, first \in Firsts, second, third \in BOOLEAN :
                ApiCall(c, name, first, second, third) =>
                   IF ShiftedArgs(name, first, second, third).success
                   THEN ForwardsCall(c, name)
                   ELSE /\ lastExc' = MissingSuccess
                        /\ chan' = chan /\ net' = net /\ timers' = timers
                        /\ s_curTranId' = s_curTranId /\ s_transIds' = s_transIds]_vars

\* the client has installed the two functions the peer named, and the one
\* for "f" was called without a success callback
C22_Witness ==
    /\ chan[1].rpc.api = {"f", "getInfo"}
    /\ chan[1].rpc.ready
    /\ lastExc = MissingSuccess

\* ------------------------------------------------ resolved calls (C23)
\* Window wA calls "m", with or without error callback and timeout, with
\* callbacks that return or throw; wB answers, and its scripts post
\* Responses and ErrorResponses for the id again, until MaxDups callbacks
\* have run; the timer fires.
MaxDups == 2

InitResolve == TwoBuilt({1}, {Peers(Chan1, Bound(Chan2, "m", h)) :
                                 h \in {Returns, Throws(ThrowString("boom"))}})

NextResolve ==
    \/ \E c \in ChanIds : ReadyTimer(c)
    \/ \E w \in {"wA", "wB"} : Deliver(w)
    \/ \E t \in timers : Timeout(t)
    \/ /\ NCalls("wA") < MaxCalls
       /\ \E e, t, x \in BOOLEAN : Call(1, "m", Undefined, e, t, x)
    \/ /\ net["wA"] = <<>>
       /\ \E id \in DOMAIN hist["wA"] :
             /\ hist["wA"][id].answered
             /\ hist["wA"][id].nSuccess + hist["wA"][id].nError < MaxDups
             /\ \E m \in {Response(id, "r"), ErrorResponse(id, "E", "again")} :
                   Inject("wA", "wB", m)

SpecResolve == InitResolve /\ [][NextResolve]_vars

\* C23 as stated: once a Response or ErrorResponse for a call has been
\* dispatched to its channel, no step invokes the success or the error
\* callback of the call: not the dispatch of another Response or
\* ErrorResponse for the id, and not the expiry of its timer.
C23_ResolvedOnce ==
    [][\A id \in DOMAIN hist["wA"] :
          hist["wA"][id].answered =>
             /\ hist'["wA"][id].nSuccess = hist["wA"][id].nSuccess
             /\ hist'["wA"][id].nError = hist["wA"][id].nError]_vars

\* ------------------------------------------------- auto-publish (C24)
\* Channel 1 of window wA has cfg.publish; its peer in wB has reconnect or
\* not.  The code of wA binds and unbinds "m" at any moment: before its
\* timer sends the handshake request, before the channel is ready, or after.
CfgPeer(r) == CfgInput("wA", OriginInput("https", "a.example", "", ""), Undefined,
                       FALSE, r, TRUE, {})

\* the event loop of the page: a due timer fires or a posted message is
\* dispatched; as long as a task is queued, the loop runs one
Tasks ==
    \/ \E c \in ChanIds : ReadyTimer(c)
    \/ \E w \in {"wA", "wB"} : Deliver(w)

InitPublish ==
    TwoBuilt({1}, {Peers(NewChan(1, "wA", CfgPublish(TRUE)), NewChan(2, "wB", CfgPeer(r))) :
                      r \in BOOLEAN})

NextPublish ==
    \/ \E c \in ChanIds : ReadyTimer(c)
    \/ \E w \in {"wA", "wB"} : Deliver(w)
    \/ ~IsSet(chan[1].regTbl, "m") /\ Bind(1, "m", Returns)
    \/ IsSet(chan[1].regTbl, "m") /\ Unbind(1, "m")

SpecPublish == InitPublish /\ [][NextPublish]_vars /\ WF_vars(Tasks)

\* C24 as stated: when "m" is bound on the publishing channel and not
\* unbound afterwards, then from some moment on both channels are ready and
\* the peer has a stub for "m" in its remote set.
C24_PublishedBecomesStub ==
    <>[]IsSet(chan[1].regTbl, "m")
       => <>[](chan[1].ready /\ chan[2].ready /\ "m" \in chan[2].remote)

\* ------------------------------------------------- both sides ready (C25)
\* The pages of wA and wB each build a channel to the other, in either
\* order and at any moment, under "*" or the origin of the other, with or
\* without reconnect; timers fire and posted messages are dispatched (a
\* message dispatched in a window that has no channel yet is lost).
ConnectCfgs(w) ==
    {CfgInput(IF w = "wA" THEN "wB" ELSE "wA", o, Undefined, FALSE, r, TRUE, {}) :
        o \in {StarInput,
               IF w = "wA" THEN OriginInput("https", "b.example", "", "")
               ELSE OriginInput("https", "a.example", "", "")},
        r \in BOOLEAN}

BuildIn(w) ==
    /\ \A d \in ChanIds : chan[d].win # w
    /\ \E c \in {1, 2}, cin \in ConnectCfgs(w) : Build(c, w, cin)

InitConnect == Init /\ \A w \in Windows : s_curTranId[w] = 1

NextConnect ==
    \/ \E w \in {"wA", "wB"} : BuildIn(w)
    \/ \E c \in ChanIds : ReadyTimer(c)
    \/ \E w \in {"wA", "wB"} : Deliver(w)

\* both pages build their channel, timers fire and messages are dispatched
SpecConnect == InitConnect /\ [][NextConnect]_vars /\ WF_vars(NextConnect)

\* C25: from some moment on both channels are ready, and each has invoked
\* the onReady of its cfg.
C25_BothBecomeReady ==
    <>[](\A c \in {1, 2} : chan[c].built /\ chan[c].ready /\ chan[c].nReady >= 1)

\* both channels are ready; the second one built became ready by a reply,
\* the first by the request of the second
C25_Witness ==
    /\ \A c \in {1, 2} : chan[c].ready /\ chan[c].nReady >= 1
    /\ chan[2].chanId = "id-L" /\ chan[1].chanId = "id-R"
    /\ net["wA"] = <<>> /\ net["wB"] = <<>>

\* --------------------------------------------- the handshake exchange (C26)
\* Two channels built for each other, the first with cfg.publish, each with
\* or without reconnect.  Before it is ready the code of wA binds "m" (which
\* goes to the publish queue) and notifies "n" (which goes to the pending
\* queue).
CfgShake(window, host, publish, reconnect) ==
    CfgInput(window, OriginInput("https", host, "", ""), Undefined,
             publish, reconnect, TRUE, {})

InitReply ==
    TwoBuilt({1}, {Peers(NewChan(1, "wA", CfgShake("wB", "b.example", TRUE, r1)),
                         NewChan(2, "wB", CfgShake("wA", "a.example", FALSE, r2))) :
                      r1, r2 \in BOOLEAN})

NextReply ==
    \/ \E c \in ChanIds : ReadyTimer(c)
    \/ \E w \in {"wA", "wB"} : Deliver(w)
    \/ ~IsSet(chan[1].regTbl, "m") /\ ~chan[1].ready /\ Bind(1, "m", Returns)
    \/ ~chan[1].ready /\ chan[1].pendingQueue = <<>> /\ Notify(1, "n", Undefined)

SpecReply == InitReply /\ [][NextReply]_vars /\ WF_vars(Tasks)

IsHandshake(m) == m.id = NoId /\ m.method # NoMethod /\ m.method[2] = "__ready"

\* the channel of window w that processes the handshake Notification at the
\* head of the queue of w (0: there is none, or the head is something else)
Shaking(w) ==
    IF net[w] = <<>> \/ ~IsHandshake(Head(net[w]).data) THEN 0
    ELSE LET e == Head(net[w])
             c == RouteByMethod(s_boundChans[w], e.origin, e.data.method[1], e.source)
         IN  IF c # 0 /\ "__ready" \in DOMAIN chan[c].regTbl THEN c ELSE 0

\* C26: the dispatch of a publish-request to a channel that processes it
\* hands to the transport first one publish-reply that carries the publish
\* queue of the channel and then no other handshake message; the dispatch of
\* any other message hands it no handshake message; and from some moment on
\* no handshake message is in flight.
C26_OneReplyThenQuiet ==
    /\ [][\A w \in {"wA", "wB"} :
             Deliver(w) =>
                LET c == Shaking(w)
                    d == RouteByMethod(s_boundChans[w], Head(net[w]).origin,
                                       DefaultScope, Head(net[w]).source)
                IN  IF c # 0 /\ Head(net[w]).data.type = "publish-request"
                    THEN /\ Handed(c) # <<>>
                         /\ Handed(c)[1] = [Handshake("publish-reply") EXCEPT
                                               !.publish = chan[c].publishQueue]
                         /\ \A i \in 2..Len(Handed(c)) : ~IsHandshake(Handed(c)[i])
                    ELSE d # 0 =>
                            \A i \in 1..Len(Handed(d)) : ~IsHandshake(Handed(d)[i])]_vars
    /\ <>[](\A w \in {"wA", "wB"} :
               \A i \in 1..Len(net[w]) : ~IsHandshake(net[w][i].data))

\* both channels have reconnect and have processed a request and a reply;
\* a reply of the first carried "m", the Notification it had queued has been
\* sent, and nothing is in flight any more
C26_Witness ==
    /\ chan[1].nReady = 2 /\ chan[2].nReady = 2
    /\ "m" \in chan[2].remote
    /\ chan[1].chanId = "id-R"
    /\ chan[1].pendingQueue = <<>>
    /\ \E m \in chan[1].posted : IsNotification(m) /\ m.method = <<DefaultScope, "n">>
    /\ net["wA"] = <<>> /\ net["wB"] = <<>>

\* ------------------------------------------ one handshake per channel (C27)
\* C27, on the handshake of C17 (channel 1 has reconnect disabled, channel 2
\* has it enabled or disabled, a script of wB posts further handshakes): a
\* channel with reconnect disabled that is ready stays ready, its cfg.onReady
\* has run at most once, namely in the step that made it ready, and the
\* dispatch of a handshake Notification to it once it is ready leaves the
\* channel as it was and hands nothing to the transport.
C27_OneHandshake ==
    [][\A c \in ChanIds :
          chan[c].built /\ ~chan[c].cfg.reconnect =>
             /\ chan[c].ready => chan'[c].ready
             /\ chan'[c].nReady <= 1
             /\ chan'[c].nReady # chan[c].nReady <=> ~chan[c].ready /\ chan'[c].ready
             /\ \A w \in Windows :
                   Deliver(w) /\ SecondHandshake(w) = c =>
                      chan'[c] = chan[c] /\ Handed(c) = <<>>]_vars

\* channel 2 has reconnect and has processed two handshakes of channel 1,
\* channel 1 has processed one of the handshakes it was sent, and every
\* message has been dispatched
C27_Witness ==
    /\ timers = {} /\ \A w \in Windows : net[w] = <<>>
    /\ chan[2].cfg.reconnect /\ chan[2].nReady = 2
    /\ ~chan[1].cfg.reconnect /\ chan[1].ready /\ chan[1].nReady = 1
    /\ Cardinality({m \in chan[2].posted : IsHandshake(m)}) = 2

\* --------------------------------------- the transaction id counter (C28)
\* The two channels of wA of C2, the counter of wA starting at any of Seeds;
\* wA calls and notifies on both channels.
NextCounter ==
    \/ /\ NCalls("wA") < MaxIds
       /\ \E c \in {1, 2} : Call(c, "m", Undefined, TRUE, FALSE, FALSE)
    \/ /\ \A m \in chan[1].posted : ~IsNotification(m)
       /\ Notify(1, "n", Undefined)
    \/ /\ net["wA"] = <<>>
       /\ \E id \in DOMAIN s_transIds["wA"] :
             Inject("wA", "wB", [Msg EXCEPT !.id = id, !.result = "r"])
    \/ Deliver("wA")
    \/ \E c \in {1, 2} : Destroy(c)

SpecCounter == InitIds /\ [][NextCounter]_vars

\* the ids the channels of window w have handed out, in the order of each
IssuedIn(w) ==
    {x \in ChanIds \X (1..MaxIds + 1) :
        chan[x[1]].win = w /\ x[2] <= Len(chan[x[1]].issued)}

\* a step: a call that returns hands out the value of the counter and
\* leaves the counter one higher; no step lowers the counter; and no two
\* calls of a window were handed the same id
CounterSteps ==
    \A w \in Windows :
       /\ s_curTranId'[w] >= s_curTranId[w]
       /\ \A c \in ChanIds :
             chan[c].win = w /\ chan'[c].issued # chan[c].issued /\ lastExc' = NoExc =>
                /\ chan'[c].issued = Append(chan[c].issued, s_curTranId[w])
                /\ s_curTranId'[w] = s_curTranId[w] + 1
       /\ \A x, y \in IssuedIn(w)' :
             x # y => chan'[x[1]].issued[x[2]] # chan'[y[1]].issued[y[2]]

\* C28 as stated: the counter of every window starts at an odd value, goes
\* up by one with every call that returns, never goes down, and no id is
\* handed out twice.
C28_OddSeedCountsUp ==
    /\ \A w \in Windows : s_curTranId[w] % 2 = 1
    /\ [][CounterSteps]_vars

\* the part of C28 that does not depend on the seed
C28_CountsUp == [][CounterSteps]_vars

\* both channels of wA have made a call, wA has notified, and the counter
\* started at an even value
C28_Witness ==
    /\ chan[1].issued # <<>> /\ chan[2].issued # <<>>
    /\ \E m \in chan[1].posted : IsNotification(m)
    /\ s_curTranId["wA"] % 2 = 0
    /\ NCalls("wA") = 2

\* --------------------------------------------------- trans.invoke (C29)
\* A script of wA posts Requests for "m" that declare the callback "a" to
\* wB, where channel 2 has bound "m" to a handler that keeps every
\* transaction it is given; whenever it likes it calls the callable it found
\* at params.a, or trans.invoke with a name the Request did not declare, and
\* complete or error.  The Requests are posted once both build timers have
\* fired.
CallbackRequest(id) ==
    [Request(id, "m") EXCEPT !.params = TreePut(NoParams, <<>>, ObjNode),
                             !.callbacks = << <<"a">> >>]

InvokeNames == {<<"a">>, <<"b">>}

\* the handler calls trans.invoke(cbName, "v") on a transaction it keeps
KeptInvoke(h, cbName) ==
    /\ h \in held
    /\ Len(net[chan[h.chan].cfg.window]) < MaxNet
    /\ Len(chan[h.chan].pendingQueue) < MaxNet
    /\ Commit(h.chan, TransInvoke(MkS(h.chan), [id |-> h.id, callbacks |-> h.callbacks],
                                  cbName, "v"))

InitInvoke == InitTrans

NextInvoke ==
    \/ \E c \in ChanIds : ReadyTimer(c)
    \/ \E w \in {"wA", "wB"} : Deliver(w)
    \/ /\ chan[2].nTrans + Len(net["wB"]) < MaxReqs /\ timers = {}
       /\ \E id \in ReqIds : Inject("wB", "wA", CallbackRequest(id))
    \/ \E h \in held : \E n \in InvokeNames : KeptInvoke(h, n)
    \/ \E h \in held : KeptComplete(h)
    \/ \E h \in held : KeptError(h)

SpecInvoke == InitInvoke /\ [][NextInvoke]_vars

\* C29 as stated: trans.invoke(n, v) on a transaction that was neither
\* completed nor errored, whose id is in the inbound table and whose Request
\* declared n hands one CallbackInvocation for n to postMessage and returns;
\* on any other transaction, or with any other name, it throws and hands
\* postMessage nothing.
C29_InvokeOnlyWhileOpen ==
    [][\A h \in held : \A n \in InvokeNames :
          KeptInvoke(h, n) =>
             IF ~h.done /\ h.id \in chan[h.chan].inTbl /\ InSeq(n, h.callbacks)
             THEN /\ lastExc' = NoExc
                  /\ Handed(h.chan) = <<[CallbackInvocation(h.id, n) EXCEPT !.arg = "v"]>>
             ELSE /\ lastExc' # NoExc
                  /\ Handed(h.chan) = <<>>]_vars

\* ------------------------------------ the life of an outbound entry (C30)
\* wA calls "m" with params {a: f}, with or without error callback and
\* timeout; the handler of wB keeps the transaction, calls params.a as often
\* as it likes and completes or fails it; a script of wB posts wA
\* CallbackInvocations for the ids of its calls and for the ids of ReqIds,
\* which it never handed out, under names the call did not declare.
UndeclaredNames == {<<"b">>, ProtoName}

InitEntry == InitSpoof

NextEntry ==
    \/ /\ NCalls("wA") = 0
       /\ \E f \in Fns : SetField("o1", <<"a">>, f)
    \/ /\ NCalls("wA") < MaxCalls
       /\ \E e, t \in BOOLEAN : Call(1, "m", "o1", e, t, FALSE)
    \/ \E c \in {1, 2} : ReadyTimer(c)
    \/ \E w \in {"wA", "wB"} : Deliver(w)
    \/ \E t \in timers : Timeout(t)
    \/ \E h \in held : \E at \in DOMAIN h.params : HeldInvoke(h, at)
    \/ \E h \in held : HeldComplete(h)
    \/ \E h \in held : HeldError(h)
    \/ /\ net["wA"] = <<>>
       /\ \E id \in DOMAIN s_transIds["wA"] \cup ReqIds, n \in UndeclaredNames :
             Inject("wA", "wB", CallbackInvocation(id, n))

SpecEntry == InitEntry /\ [][NextEntry]_vars

\* the channel of window w whose outbound table declares callback n for id
\* (0: none does)
Declares(w, id, n) ==
    IF id \in DOMAIN s_transIds[w]
       /\ id \in DOMAIN chan[s_transIds[w][id]].outTbl
       /\ n \in DOMAIN chan[s_transIds[w][id]].outTbl[id].callbacks
    THEN s_transIds[w][id] ELSE 0

\* C30 as stated.  The dispatch of a CallbackInvocation whose id and name
\* are those of a callback of an outstanding call runs that callback and
\* leaves the outbound table and the correlation table as they were; the
\* dispatch of any other CallbackInvocation does nothing at all; and an id
\* leaves the outbound table of a channel only in the dispatch of a Response
\* or ErrorResponse with that id, which runs success or error, or when the
\* timer of the call fires.
C30_EntryOutlivesCallbacks ==
    [][/\ (Deliver("wA") /\ Head(net["wA"]).data.method = NoMethod
                         /\ Head(net["wA"]).data.callback # NoCallback)
          => LET m == Head(net["wA"]).data
                 c == Declares("wA", m.id, m.callback)
             IN  IF c # 0
                 THEN /\ [fn |-> chan[c].outTbl[m.id].callbacks[m.callback],
                          callback |-> m.callback] \in hist'["wA"][m.id].ran
                      /\ chan'[c].outTbl = chan[c].outTbl
                      /\ s_transIds' = s_transIds
                 ELSE /\ lastExc' = NoExc
                      /\ chan' = chan /\ hist' = hist /\ s_transIds' = s_transIds
       /\ \A id \in DOMAIN chan[1].outTbl :
             id \notin DOMAIN chan'[1].outTbl =>
                \/ /\ Deliver("wA")
                   /\ Head(net["wA"]).data.id = id
                   /\ Head(net["wA"]).data.callback = NoCallback
                   /\ (hist["wA"][id].hasError \/ Falsy(Head(net["wA"]).data.error)) =>
                         hist'["wA"][id].nSuccess + hist'["wA"][id].nError
                            = hist["wA"][id].nSuccess + hist["wA"][id].nError + 1
                \/ \E t \in timers : t.kind = "timeout" /\ t.id = id /\ Timeout(t)]_vars

\* ------------------------------------ the correlation table (C31)
\* the ids in the outbound tables of the channels of window w
OutIdsIn(w) ==
    UNION {DOMAIN chan[c].outTbl : c \in {d \in ChanIds : chan[d].built /\ chan[d].win = w}}

\* C31 as stated, on the two channels of wA of C2 (calls with and without
\* timeout, Responses, timers and destroy): the ids in s_transIds of a window
\* are the ids in the outbound tables of its channels.
C31_TransIdsMatchOutTbls ==
    \A w \in Windows : DOMAIN s_transIds[w] = OutIdsIn(w)

\* ------------------------------------- call and notify that throw (C32)
\* The argument m of call and notify: given is whether an object was passed
\* at all, method, success and params are its members (values of the js
\* values above), error and timeout whether it has those members.
MissingArgs(fn) == ThrowString("missing arguments to " \o fn \o " function")

MethodNotString(fn) == ThrowString("'method' argument to " \o fn \o " must be string")

\* obj.call(m) from its first line (first a call that tests success only
\* after it has taken the id)
callLateCheck(S, m) ==
    IF ~m.given THEN Throw(S, MissingArgs("call"))
    ELSE IF Falsy(m.method) \/ TypeOf(m.method) # "string"
    THEN Throw(S, MethodNotString("call"))
    ELSE LET S1 == call(S, m.method, m.params, m.error, m.timeout, FALSE)
         IN  IF Falsy(m.success) \/ TypeOf(m.success) # "function"
             THEN Throw(S1, MissingSuccess) ELSE S1

callChecked(S, m) ==
    IF ~m.given THEN Throw(S, MissingArgs("call"))
    ELSE IF Falsy(m.method) \/ TypeOf(m.method) # "string"
    THEN Throw(S, MethodNotString("call"))
    ELSE IF Falsy(m.success) \/ TypeOf(m.success) # "function"
    THEN Throw(S, MissingSuccess)
    ELSE call(S, m.method, m.params, m.error, m.timeout, FALSE)

\* obj.notify(m) from its first line
notifyChecked(S, m) ==
    IF ~m.given THEN Throw(S, MissingArgs("notify"))
    ELSE IF Falsy(m.method) \/ TypeOf(m.method) # "string"
    THEN Throw(S, MethodNotString("notify"))
    ELSE IF IsCyclic(S.heap, m.params)
    THEN Throw(S, ThrowError("TypeError", "cyclic object value"))
    ELSE notify(S, m.method, [Msg EXCEPT !.params = JsonRoundTrip(S.heap, m.params)])

CallWith(c, m) ==
    /\ chan[c].built
    /\ Len(chan[c].pendingQueue) < MaxNet
    /\ Len(net[chan[c].cfg.window]) < MaxNet
    /\ Commit(c, callChecked(MkS(c), m))

NotifyWith(c, m) ==
    /\ chan[c].built
    /\ Len(chan[c].pendingQueue) < MaxNet
    /\ Len(net[chan[c].cfg.window]) < MaxNet
    /\ Commit(c, notifyChecked(MkS(c), m))

\* the arguments user code passes: nothing, or an object whose method is a
\* name, the empty string, missing or an object, whose success is a
\* function, missing or a string, and whose params is missing or o1
ArgsOf ==
    LET Good == [given |-> TRUE, method |-> "m", success |-> "f1",
                 params |-> Undefined, error |-> FALSE, timeout |-> FALSE]
    IN  {[Good EXCEPT !.given = FALSE]}
        \cup {[Good EXCEPT !.params = p, !.timeout = t] :
                 p \in {Undefined, "o1"}, t \in BOOLEAN}
        \cup {[Good EXCEPT !.method = x, !.timeout = TRUE] : x \in {"", Undefined, "o2"}}
        \cup {[Good EXCEPT !.success = x, !.timeout = TRUE] : x \in {Undefined, "p"}}

\* wA builds o1 out of members that hold o1, o2 or a function, and calls
\* and notifies with the arguments above, before and after its channel is
\* ready (it is ready once it has got the handshake request of channel 2).
InitArgs == InitPrune

NextArgs ==
    \/ /\ NCalls("wA") = 0 /\ chan[1].posted = {}
       /\ \E o \in {"o1", "o2"}, v \in {"f1", "o1", "o2"} : SetField(o, <<"a">>, v)
    \/ /\ NCalls("wA") < MaxCalls
       /\ \E m \in ArgsOf : CallWith(1, m)
    \/ /\ \A x \in chan[1].posted : ~IsNotification(x) \/ IsHandshake(x)
       /\ \E m \in ArgsOf : NotifyWith(1, m)
    \/ ReadyTimer(2)
    \/ Deliver("wA")

SpecArgs == InitArgs /\ [][NextArgs]_vars

\* what call and notify throw over their argument
ArgErrors ==
    {MissingArgs("call"), MissingArgs("notify"), MethodNotString("call"),
     MethodNotString("notify"), MissingSuccess, ThrowString(RecursiveError),
     ThrowError("TypeError", "cyclic object value")}

\* C32: a step in which call or notify throws over its argument leaves the
\* id counter, the outbound table, the correlation table, the timers, the
\* pending queue and the message queues of the windows as they were.
C32_ThrowAllocatesNothing ==
    [][lastExc' \in ArgErrors =>
          /\ \E m \in ArgsOf : CallWith(1, m) \/ NotifyWith(1, m)
          /\ s_curTranId' = s_curTranId
          /\ s_transIds' = s_transIds
          /\ chan'[1].outTbl = chan[1].outTbl
          /\ timers' = timers
          /\ chan'[1].pendingQueue = chan[1].pendingQueue
          /\ net' = net]_vars

\* a call or notify has just thrown over its success or method argument on
\* a channel that is ready and has a call with a timeout outstanding
C32_Witness ==
    /\ lastExc \in {MissingSuccess, MethodNotString("call"), MethodNotString("notify")}
    /\ chan[1].ready
    /\ chan[1].outTbl # EmptyFn
    /\ \E t \in timers : t.kind = "timeout"

\* notify has just thrown over params that contain themselves
C32_WitnessCyclic ==
    lastExc = ThrowError("TypeError", "cyclic object value")

\* --------------------------------------- the first id of a page (C33)
\* The counter of wA starts at any of Seeds; wA calls "m", which wB has bound
\* to a handler that returns or throws.
InitSeed ==
    TwoBuilt(Seeds, {Peers(Chan1, Bound(Chan2, "m", h)) :
                        h \in {Returns, Throws(ThrowString("boom"))}})

NextSeed ==
    \/ \E c \in ChanIds : ReadyTimer(c)
    \/ \E w \in {"wA", "wB"} : Deliver(w)
    \/ /\ NCalls("wA") < MaxCalls
       /\ \E e \in BOOLEAN : Call(1, "m", Undefined, e, FALSE, FALSE)

SpecSeed == InitSeed /\ [][NextSeed]_vars

\* C33 as stated: the dispatch in wB of a Request that call() of channel 1
\* has posted for "m" creates a transaction, runs the handler of "m" as the
\* handler of a Request and not of a Notification, and hands the transport a
\* Response or ErrorResponse with the id of the Request.
C33_RequestIdRecognised ==
    [][/\ Deliver("wB")
       /\ Head(net["wB"]).data.method = scopeMethod(DefaultScope, "m")
       /\ Head(net["wB"]).data \in chan[1].posted
       /\ Head(net["wB"]).data.id \in DOMAIN hist["wA"]
       => /\ chan'[2].nTrans = chan[2].nTrans + 1
          /\ chan'[2].notified = chan[2].notified
          /\ \E i \in 1..Len(Handed(2)) :
                /\ Handed(2)[i].id = Head(net["wB"]).data.id
                /\ Handed(2)[i].method = NoMethod]_vars

\* --------------------- handleEvent / unregisterEventHandler (C34)
\* The page in wA registers and unregisters handlers for event names with
\* the client it has connected to wB, at times when the page in wB has bound
\* its methods and no message or timer is pending.

\* an eventName that is truthy and not a string (the number 5)
NumberName == "<5>"

\* the function handleEvent binds to the channel under the event name
EventDispatcher == Handler("events", "none", <<>>, "return", NoExc)

\* eventHandlers[eventName] when it is an array, else no handlers
HandlersOf(rpc, eventName) ==
    IF eventName \in DOMAIN rpc.eventHandlers THEN rpc.eventHandlers[eventName]
    ELSE <<>>

\* channel.call({method: 'handleEvent', params: [eventName, flag], success,
\* error: defaultErrorHandler})
RemoteHandleEvent(S, eventName, flag) ==
    LET S1 == call(S, "handleEvent", Undefined, TRUE, FALSE, FALSE)
    IN  IF S1.exc # NoExc THEN S1
        ELSE [S1 EXCEPT !.ch.rpc.defaulted = @ \cup {S.cur},
                        !.ch.rpc.listens =
                            Append(@, [name |-> eventName, flag |-> flag])]

\* channel.bind(eventName, function (trans, data) {...}) with the test of
\* bind on the type of its first argument
BindDispatcher(S, eventName) ==
    IF eventName = NumberName
    THEN Throw(S, ThrowString("'method' argument to bind must be string"))
    ELSE bind(S, eventName, EventDispatcher, FALSE)

\* RPC_API.handleEvent(eventName, handler), handler a function or undefined.
\* eventHandlers is a plain object: under a name Object.prototype defines it
\* holds a function, which has no push.
handleEvent(S, eventName, handler) ==
    IF Falsy(eventName)
    THEN Throw(S, ThrowError("Error", "Event name not specified"))
    ELSE IF handler = Undefined
    THEN Throw(S, ThrowError("Error", "Handler is not a function"))
    ELSE IF eventName \in ProtoMethods THEN Throw(S, NotAFunction)
    ELSE LET S1 == [S EXCEPT !.ch.rpc.eventHandlers =
                       With(@, eventName,
                            Append(HandlersOf(S.ch.rpc, eventName), handler))]
         IN  IF Len(S1.ch.rpc.eventHandlers[eventName]) # 1 THEN S1
             ELSE LET S2 == BindDispatcher(S1, eventName)
                  IN  IF S2.exc # NoExc THEN S2
                      ELSE RemoteHandleEvent(S2, eventName, TRUE)

\* RPC_API.unregisterEventHandler(eventName, handler).  Under a name
\* Object.prototype defines, handlers is a function of length 0.
unregisterEventHandler(S, eventName, handler) ==
    IF Falsy(eventName)
    THEN Throw(S, ThrowError("Error", "Event name not specified"))
    ELSE LET handlers == HandlersOf(S.ch.rpc, eventName)
             remainingHandlers == SelectSeq(handlers, LAMBDA h : h # handler)
         IN  IF eventName \in ProtoMethods \/ handlers = <<>> THEN S
             ELSE LET S1 == [S EXCEPT !.ch.rpc.eventHandlers =
                                With(@, eventName, remainingHandlers)]
                  IN  IF remainingHandlers # <<>> THEN S1
                      ELSE RemoteHandleEvent(unbind(S1, eventName, FALSE),
                                             eventName, FALSE)

EventNames == {"e", "__bind", NumberName, "toString", ""}
EventHandlerFns == {"h1", "h2"}

\* the number of handlers in the lists of eventHandlers
RECURSIVE NHandlers(_)
NHandlers(eventHandlers) ==
    IF DOMAIN eventHandlers = {} THEN 0
    ELSE LET name == CHOOSE n \in DOMAIN eventHandlers : TRUE
         IN  Len(eventHandlers[name]) + NHandlers(Without(eventHandlers, name))

HandleEvent(c, eventName, handler) ==
    /\ chan[c].built /\ chan[c].rpc.connected
    /\ NHandlers(chan[c].rpc.eventHandlers) < MaxDups
    /\ Len(chan[c].pendingQueue) < MaxNet
    /\ Len(net[chan[c].cfg.window]) < MaxNet
    /\ Commit(c, handleEvent(MkS(c), eventName, handler))

UnregisterEventHandler(c, eventName, handler) ==
    /\ chan[c].built /\ chan[c].rpc.connected
    /\ Len(chan[c].pendingQueue) < MaxNet
    /\ Len(net[chan[c].cfg.window]) < MaxNet
    /\ Commit(c, unregisterEventHandler(MkS(c), eventName, handler))

InitEvents == InitClient

NextEvents ==
    \/ Connect(1, "wA", "wB", OriginInput("https", "b.example", "", ""))
    \/ Build(2, "wB", CfgOskari)
    \/ /\ ~IsSet(chan[2].regTbl, Introspection)
       /\ Bind(2, Introspection, ReturnsValue("{}"))
    \/ ~IsSet(chan[2].regTbl, "handleEvent") /\ Bind(2, "handleEvent", Returns)
    \/ \E c \in ChanIds : ReadyTimer(c)
    \/ \E w \in {"wA", "wB"} : Deliver(w)
    \/ /\ NCalls("wA") < MaxCalls + 2
       /\ IsSet(chan[2].regTbl, Introspection) /\ IsSet(chan[2].regTbl, "handleEvent")
       /\ timers = {} /\ net["wA"] = <<>> /\ net["wB"] = <<>>
       /\ \E eventName \in EventNames, handler \in EventHandlerFns \cup {Undefined} :
             \/ HandleEvent(1, eventName, handler)
             \/ UnregisterEventHandler(1, eventName, handler)

SpecEvents == InitEvents /\ [][NextEvents]_vars

\* the channel of the client has the function of handleEvent bound under name
DispatcherBound(ch, name) ==
    name \in DOMAIN ch.regTbl /\ ch.regTbl[name] = EventDispatcher

\* C34 (first part): the channel of the client has a handler bound for an
\* event name if and only if the client's list of handlers for that name is
\* not empty.
C34_BoundIffListed ==
    \A name \in EventNames \ {""} :
       chan[1].rpc.connected =>
          (DispatcherBound(chan[1], name)
              <=> HandlersOf(chan[1].rpc, name) # <<>>)

\* C34 (second part): the client makes the remote 'handleEvent' call with
\* flag true only in a step that takes the list of the name from empty to not
\* empty, and with flag false only in a step that takes it from not empty to
\* empty.
C34_FlagOnEdges ==
    [][chan'[1].rpc.listens # chan[1].rpc.listens
          => /\ Len(chan'[1].rpc.listens) = Len(chan[1].rpc.listens) + 1
             /\ LET l == chan'[1].rpc.listens[Len(chan'[1].rpc.listens)]
                IN  IF l.flag
                    THEN /\ HandlersOf(chan[1].rpc, l.name) = <<>>
                         /\ HandlersOf(chan'[1].rpc, l.name) # <<>>
                    ELSE /\ HandlersOf(chan[1].rpc, l.name) # <<>>
                         /\ HandlersOf(chan'[1].rpc, l.name) = <<>>]_vars

\* a handler was registered twice and unregistered: both edges were announced
C34_Witness ==
    /\ Len(chan[1].rpc.listens) = 2
    /\ chan[1].rpc.listens[1] = [name |-> "e", flag |-> TRUE]
    /\ chan[1].rpc.listens[2] = [name |-> "e", flag |-> FALSE]
    /\ HandlersOf(chan[1].rpc, "e") = <<>>
    /\ "e" \in DOMAIN chan[1].rpc.eventHandlers

====
